---- MODULE Spec2Model ----
(***************************************************************************)
(* State-machine model of Segmentation_App.py: the session kept by         *)
(* KMeansSegmentationApp (image, segmentation results, visibility flags,   *)
(* cluster-count field, buttons), the modal UniformColorMaskDialog and    *)
(* ImageFilterDialog, and the files save_segments writes.                  *)
(*                                                                         *)
(* An image is a record [shape |-> <<height, width>>, px |-> pixels]; px   *)
(* holds the first Min(height*width, MaxTracked) pixels in row-major       *)
(* order, each a BGR triple.  A mask has the same form with px in {0,255}. *)
(* Real-valued K-means centres are kept in tenths (1276 stands for 127.6). *)
(***************************************************************************)
EXTENDS Integers, Sequences, FiniteSets, TLC

\* Python None where an image is expected: no shape, no pixels
None == [shape |-> <<>>, px |-> <<>>]

\* Number of leading pixels of an image whose values the model tracks.
MaxTracked == 2

Min(a, b) == IF a <= b THEN a ELSE b

Black == <<0, 0, 0>>
Rust  == <<50, 100, 200>>
Colours == {Black, Rust}

----------------------------------------------------------------------------
VARIABLES
    original_image,      \* KMeansSegmentationApp.original_image (None or image)
    segmented_image,     \* KMeansSegmentationApp.segmented_image
    dominant_colors,     \* palette: centers.tolist(), a sequence of BGR triples
    masks,               \* sequence of masks
    cluster_visibility,  \* sequence of booleans
    cluster_input,       \* text of the cluster-count QLineEdit
    k_slider,            \* value of the slider
    filter_button, segment_button, save_button, show_masks_button,
                         \* isEnabled() of the four buttons
    window_enabled,      \* isEnabled() of the main window
    pc,                  \* "idle", "segmenting", "mask_dialog", "saved",
                         \* "filter_dialog" or "aborted"
    k,                   \* local k of the segment_image call in progress
    dlg_visibility,      \* UniformColorMaskDialog.cluster_visibility
    dlg_aliased,         \* whether that list is the main window's own list object
    dlg_preview,         \* image last shown by UniformColorMaskDialog.display_preview
    dlg_mask_images,     \* the coloured mask image the dialog shows per cluster
    written,             \* files written by the save_segments call in progress
    flt_original_image,  \* ImageFilterDialog.original_image
    filtered_image,      \* ImageFilterDialog.filtered_image
    filter_combo,        \* ImageFilterDialog.filter_combo.currentText()
    current_params,      \* ImageFilterDialog.current_params
    cv_call              \* arguments of the dialog's last OpenCV filter call

results == <<segmented_image, dominant_colors, masks, cluster_visibility>>
inputs  == <<cluster_input, k_slider>>
buttons == <<filter_button, segment_button, save_button, show_masks_button>>
dialog  == <<dlg_visibility, dlg_aliased, dlg_preview, dlg_mask_images>>
filter_dialog ==
    <<flt_original_image, filtered_image, filter_combo, current_params, cv_call>>
elsewhere == <<written, filter_dialog>>
vars    == <<original_image, results, inputs, buttons, window_enabled, pc, k, dialog,
             elsewhere>>

----------------------------------------------------------------------------
(* numpy / OpenCV helpers *)

NumPixels(shape) == shape[1] * shape[2]
Tracked(shape) == Min(NumPixels(shape), MaxTracked)

\* ZerosLike as image.copy(): the canvas starts as the image itself
ZerosLike_Copy(image) == image

\* np.zeros_like(image)
ZerosLike(image) ==
    [shape |-> image.shape, px |-> [i \in 1..Len(image.px) |-> Black]]

\* dst[mask == 255] = src[mask == 255]   (shapes agree)
CopyWhere(dst, mask, src) ==
    [dst EXCEPT !.px = [i \in 1..Len(dst.px) |->
                          IF mask.px[i] = 255 THEN src.px[i] ELSE dst.px[i]]]

\* dst[mask == 255] = color
FillWhere(dst, mask, color) ==
    [dst EXCEPT !.px = [i \in 1..Len(dst.px) |->
                          IF mask.px[i] = 255 THEN color ELSE dst.px[i]]]

\* MaskColorImage painting the pixels outside the mask
MaskColorImage_Inverted(image, mask, color) ==
    [shape |-> image.shape,
     px    |-> [i \in 1..Len(image.px) |->
                  IF mask.px[i] = 255 THEN Black ELSE color]]

\* mask_color = np.zeros_like(original_image); mask_color[mask == 255] = color
MaskColorImage(image, mask, color) == FillWhere(ZerosLike(image), mask, color)

\* Boolean-mask indexing raises IndexError unless the mask has the image's
\* leading dimensions; np.zeros_like(None) is 0-dimensional, so it raises too.
CanIndex(image, mask) == image /= None /\ mask.shape = image.shape

----------------------------------------------------------------------------
(* Text of the cluster-count field: a sequence of one-character strings *)

Digits == {"0", "1", "2", "3", "4", "5", "6", "7", "8", "9"}

DigitVal(c) ==
    CASE c = "0" -> 0 [] c = "1" -> 1 [] c = "2" -> 2 [] c = "3" -> 3
      [] c = "4" -> 4 [] c = "5" -> 5 [] c = "6" -> 6 [] c = "7" -> 7
      [] c = "8" -> 8 [] c = "9" -> 9

DigitChar(d) == CHOOSE c \in Digits : DigitVal(c) = d

\* str.isdigit(): non-empty and every character a digit
IsDigit(text) == Len(text) > 0 /\ \A i \in 1..Len(text) : text[i] \in Digits

\* the number a text of digits stands for
RECURSIVE IntOf(_)
IntOf(text) ==
    IF Len(text) = 0 THEN 0
    ELSE 10 * IntOf(SubSeq(text, 1, Len(text) - 1)) + DigitVal(text[Len(text)])

Signs == {"+", "-"}

\* a text without its leading sign, if it has one
Unsigned(text) ==
    IF Len(text) > 0 /\ text[1] \in Signs THEN Tail(text) ELSE text

\* int(text) raises ValueError unless text is digits with at most a sign in
\* front (of the texts the field can hold: digits, signs, group separators)
IntRaises(text) == ~IsDigit(Unsigned(text))

\* int(text) when it does not raise
ParseInt(text) ==
    IF text[1] = "-" THEN 0 - IntOf(Unsigned(text)) ELSE IntOf(Unsigned(text))

\* str(value) for value >= 0
RECURSIVE Str(_)
Str(value) ==
    IF value < 10 THEN <<DigitChar(value)>>
    ELSE Str(value \div 10) \o <<DigitChar(value % 10)>>

MinClusters == 2
MaxClusters == 10

\* the character QLocale takes for the group separator (C and en_US locale)
GroupSeparator == ","

\* QLocaleData::validateChars in integer mode: digits, a sign in front only,
\* a group separator only straight after a digit
CharsValid(text) ==
    \A i \in 1..Len(text) :
       \/ text[i] \in Digits
       \/ text[i] \in Signs /\ i = 1
       \/ text[i] = GroupSeparator /\ i > 1 /\ text[i - 1] \in Digits

\* the characters validateChars passes on: the text without its group
\* separators
Ungrouped(text) == SelectSeq(text, LAMBDA c : c /= GroupSeparator)

\* a text of digits without its leading zeros
RECURSIVE Significant(_)
Significant(digits) ==
    IF Len(digits) > 0 /\ digits[1] = "0" THEN Significant(Tail(digits)) ELSE digits

\* whether QLocale.toInt takes the group separators of a text that passed
\* validateChars and has a digit: the first stands after at most three
\* digits, each further one four characters after the one before, and three
\* digits follow the last
GroupingOk(text) ==
    LET seps        == {i \in 1..Len(text) : text[i] = GroupSeparator}
        first_digit == IF text[1] \in Signs THEN 2 ELSE 1
    IN \A i \in seps :
          /\ (\A j \in seps : j >= i) => i - first_digit <= 3
          /\ (\E j \in seps : j < i) =>
                (i - 4) \in seps /\ \A j \in seps : j < i => j <= i - 4
          /\ (\A j \in seps : j <= i) => Len(text) - i = 3

\* QIntValidator(2, 10).validate(text).  Characters other than digits, signs
\* and group separators make a text Invalid, and so does a sign or separator
\* out of place.  "-" in front is Invalid because the bottom of the range is
\* not negative; the empty text and a sign alone are Intermediate.  A number
\* within the range is Acceptable if QLocale.toInt parses the text and
\* Intermediate if not ("5,"); a number over the top is Invalid once it has
\* more digits than the top.  The field keeps every text that is not
\* Invalid, so "", "0", "1", "11", "+", "+5" and "5," can stand in it.
ValidatorState(text) ==
    IF ~CharsValid(text) THEN "Invalid"
    ELSE LET buff   == Ungrouped(text)
             digits == Unsigned(buff)
             number == Significant(digits)
         IN IF buff = <<>> THEN "Intermediate"
            ELSE IF buff[1] = "-" THEN "Invalid"
            ELSE IF digits = <<>> THEN "Intermediate"
            ELSE IF Len(number) > Len(Str(MaxClusters)) THEN "Invalid"
            ELSE IF IntOf(number) >= MinClusters /\ IntOf(number) <= MaxClusters
                 THEN IF GroupingOk(text) THEN "Acceptable" ELSE "Intermediate"
            ELSE IF IntOf(number) > MaxClusters
                    /\ Len(digits) > Len(Str(MaxClusters))
                 THEN "Invalid"
            ELSE "Intermediate"

\* QIntValidator.fixup(text) for a text the field holds (not Invalid, so
\* without "-" and of at most two significant digits): the number of the
\* text as QLocale.toString writes it, when the text has one
FixedUp(text) ==
    LET digits == Unsigned(Ungrouped(text))
    IN IF digits /= <<>> THEN Str(IntOf(Significant(digits))) ELSE text

\* Texts the user types into the field, and positions the user drags the
\* slider to.
TypedTexts ==
    {<<>>, <<"0">>, <<"1">>, <<"2">>, <<"1", "0", "0">>, <<"+", "5">>, <<"5", ",">>}
SliderMoves == {2}

----------------------------------------------------------------------------
(* Files offered by the open dialog, and what cv2.imread decodes them to *)

Files == {"missing.png", "dot.png", "photo.png", "strip.png", "poster.png"}

\* Further files, each with the height and width of the image it decodes to
DecodedSizes ==
    { <<"30x30.png", 30, 30>>,
      <<"30x200.png", 30, 200>>,
      <<"30x3000.png", 30, 3000>>,
      <<"30x4000.png", 30, 4000>>,
      <<"30x4001.png", 30, 4001>>,
      <<"30x5000.png", 30, 5000>>,
      <<"30x6000.png", 30, 6000>>,
      <<"30x8000.png", 30, 8000>>,
      <<"30x500000.png", 30, 500000>>,
      <<"2999x30.png", 2999, 30>>,
      <<"2999x200.png", 2999, 200>>,
      <<"2999x3000.png", 2999, 3000>>,
      <<"2999x4001.png", 2999, 4001>>,
      <<"2999x5000.png", 2999, 5000>>,
      <<"2999x6000.png", 2999, 6000>>,
      <<"2999x8000.png", 2999, 8000>>,
      <<"2999x500000.png", 2999, 500000>>,
      <<"3000x30.png", 3000, 30>>,
      <<"3000x200.png", 3000, 200>>,
      <<"3000x3000.png", 3000, 3000>>,
      <<"3000x4000.png", 3000, 4000>>,
      <<"3000x4001.png", 3000, 4001>>,
      <<"3000x5000.png", 3000, 5000>>,
      <<"3000x6000.png", 3000, 6000>>,
      <<"3000x8000.png", 3000, 8000>>,
      <<"3000x500000.png", 3000, 500000>>,
      <<"3001x30.png", 3001, 30>>,
      <<"3001x200.png", 3001, 200>>,
      <<"3001x3000.png", 3001, 3000>>,
      <<"3001x4000.png", 3001, 4000>>,
      <<"3001x4001.png", 3001, 4001>>,
      <<"3001x5000.png", 3001, 5000>>,
      <<"3001x6000.png", 3001, 6000>>,
      <<"3001x8000.png", 3001, 8000>>,
      <<"3001x500000.png", 3001, 500000>>,
      <<"4001x30.png", 4001, 30>>,
      <<"4001x200.png", 4001, 200>>,
      <<"4001x3000.png", 4001, 3000>>,
      <<"4001x4000.png", 4001, 4000>>,
      <<"4001x4001.png", 4001, 4001>>,
      <<"4001x5000.png", 4001, 5000>>,
      <<"4001x6000.png", 4001, 6000>>,
      <<"4001x8000.png", 4001, 8000>>,
      <<"4001x500000.png", 4001, 500000>>,
      <<"6000x30.png", 6000, 30>>,
      <<"6000x200.png", 6000, 200>>,
      <<"6000x3000.png", 6000, 3000>>,
      <<"6000x4000.png", 6000, 4000>>,
      <<"6000x4001.png", 6000, 4001>>,
      <<"6000x5000.png", 6000, 5000>>,
      <<"6000x6000.png", 6000, 6000>>,
      <<"6000x8000.png", 6000, 8000>>,
      <<"20000x30.png", 20000, 30>>,
      <<"20000x200.png", 20000, 200>>,
      <<"20000x3000.png", 20000, 3000>>,
      <<"20000x4000.png", 20000, 4000>>,
      <<"20000x4001.png", 20000, 4001>>,
      <<"20000x5000.png", 20000, 5000>>,
      <<"20000x6000.png", 20000, 6000>>,
      <<"20000x8000.png", 20000, 8000>>,
      <<"500000x30.png", 500000, 30>>,
      <<"500000x200.png", 500000, 200>>,
      <<"500000x3000.png", 500000, 3000>>,
      <<"500000x4000.png", 500000, 4000>>,
      <<"500000x4001.png", 500000, 4001>>,
      <<"3000x4210.png", 3000, 4210>>,
      <<"4210x3000.png", 4210, 3000>>,
      <<"98x392000.png", 98, 392000>>,
      <<"99x392000.png", 99, 392000>> }

SizedFiles == {row[1] : row \in DecodedSizes}

\* height and width of the image a file decodes to; dot.png and photo.png
\* are small enough for the model to keep every pixel of them
FileShape(file_path) ==
    CASE file_path = "dot.png"    -> <<1, 1>>
      [] file_path = "photo.png"  -> <<1, 2>>
      [] file_path = "strip.png"  -> <<30, 500000>>
      [] file_path = "poster.png" -> <<3000, 5000>>
      [] OTHER ->
           LET row == CHOOSE r \in DecodedSizes : r[1] = file_path
           IN <<row[2], row[3]>>

\* OpenCV's default limits on an image to decode: CV_IO_MAX_IMAGE_PIXELS,
\* and CV_IO_MAX_IMAGE_WIDTH and CV_IO_MAX_IMAGE_HEIGHT
MaxImagePixels == 2^30
MaxImageSide   == 2^20

\* cv2.imread raises cv2.error on a file whose image exceeds the limits
ImreadRaises(file_path) ==
    /\ file_path /= "missing.png"
    /\ \/ NumPixels(FileShape(file_path)) > MaxImagePixels
       \/ FileShape(file_path)[1] > MaxImageSide
       \/ FileShape(file_path)[2] > MaxImageSide

\* cv2.imread(file_path) when it does not raise
imread(file_path) ==
    IF file_path = "missing.png" THEN None
    ELSE [shape |-> FileShape(file_path),
          px    |-> [i \in 1..Tracked(FileShape(file_path)) |->
                       IF i % 2 = 1 THEN Rust ELSE Black]]

\* Every image of the given shape over Colours
ImagesOfShape(shape) ==
    [shape : {shape}, px : [1..Tracked(shape) -> Colours]]

LimitWidth  == 4000
LimitHeight == 3000

\* ResizedShape cutting each axis to its own limit
ResizedShape_PerAxis(shape) == <<Min(shape[1], LimitHeight), Min(shape[2], LimitWidth)>>

(* Python floats are IEEE 754 doubles.  A positive double is kept as its 53 *)
(* significand bits, most significant first, and the exponent of the last  *)
(* bit: [m |-> bits, e |-> exponent] stands for the integer m times 2^e.   *)

\* width of the significand of a double
Mantissa == 53

\* number of bits of the dividends 4000 and 3000
DividendBits == 12

\* the integer a sequence of bits, most significant first, stands for
RECURSIVE IntOfBits(_)
IntOfBits(bits) ==
    IF bits = <<>> THEN 0
    ELSE 2 * IntOfBits(SubSeq(bits, 1, Len(bits) - 1)) + bits[Len(bits)]

\* Long division of n by d from step i + 1 on, r the remainder and bits the
\* quotient bits found so far from the first 1 on: the quotient's first
\* Mantissa + 2 significant bits, then one bit that tells whether anything
\* is left, with the exponent of that last bit.
RECURSIVE QuotientBits(_, _, _, _, _)
QuotientBits(n, d, r, i, bits) ==
    IF Len(bits) = Mantissa + 2
    THEN [bits |-> Append(bits, IF r /= 0 THEN 1 ELSE 0),
          e    |-> DividendBits - i - 1]
    ELSE LET b     == IF i < DividendBits
                      THEN (n \div 2^(DividendBits - i - 1)) % 2 ELSE 0
             r_in  == 2 * r + b
             q     == IF r_in >= d THEN 1 ELSE 0
         IN QuotientBits(n, d, r_in - q * d, i + 1,
                         IF bits /= <<>> \/ q = 1 THEN Append(bits, q) ELSE bits)

\* Rounding of a bit sequence of at least Mantissa bits (leading bit 1, e the
\* exponent of its last bit) to a double: to nearest, ties to even
RoundToDouble(bits, e) ==
    LET keep   == SubSeq(bits, 1, Mantissa)
        rest   == Len(bits) - Mantissa
        up     == /\ rest >= 1
                  /\ bits[Mantissa + 1] = 1
                  /\ \/ keep[Mantissa] = 1
                     \/ \E i \in (Mantissa + 2)..Len(bits) : bits[i] = 1
        zeros  == {i \in 1..Mantissa : keep[i] = 0}
        last0  == CHOOSE z \in zeros : \A y \in zeros : y <= z
    IN IF ~up THEN [m |-> keep, e |-> e + rest]
       ELSE IF zeros = {}
       THEN [m |-> [i \in 1..Mantissa |-> IF i = 1 THEN 1 ELSE 0], e |-> e + rest + 1]
       ELSE [m |-> [i \in 1..Mantissa |->
                      IF i < last0 THEN keep[i] ELSE IF i = last0 THEN 1 ELSE 0],
             e |-> e + rest]

\* n / d for integers 0 < n < 2^DividendBits and d > 0
FloatDiv(n, d) ==
    LET quotient == QuotientBits(n, d, 0, 0, <<>>)
    IN RoundToDouble(quotient.bits, quotient.e)

\* a < b for positive doubles
FloatLess(a, b) ==
    \/ a.e < b.e
    \/ /\ a.e = b.e
       /\ \E i \in 1..Mantissa :
             /\ a.m[i] < b.m[i]
             /\ \A j \in 1..(i - 1) : a.m[j] = b.m[j]

\* min(a, b)
FloatMin(a, b) == IF FloatLess(b, a) THEN b ELSE a

\* the bits of carry * 2^(Len(m) - i) + x * (the integer of m[1..i]),
\* followed by the bits out
RECURSIVE ProductBits(_, _, _, _, _)
ProductBits(m, x, i, carry, out) ==
    IF carry = 0 /\ i = 0 THEN out
    ELSE LET t == carry + (IF i = 0 THEN 0 ELSE m[i] * x)
         IN ProductBits(m, x, IF i = 0 THEN 0 ELSE i - 1, t \div 2,
                        <<t % 2>> \o out)

\* x * f for an integer x > 0 and a double f
FloatTimes(x, f) == RoundToDouble(ProductBits(f.m, x, Mantissa, 0, <<>>), f.e)

\* int(f): the fractional bits are dropped
FloatToInt(f) ==
    IF f.e >= 0 THEN IntOfBits(f.m) * 2^(f.e)
    ELSE IF -(f.e) >= Mantissa THEN 0
    ELSE IntOfBits(SubSeq(f.m, 1, Mantissa + f.e))

\* scale = min(4000/width, 3000/height); (int(width*scale), int(height*scale))
\* as <<new_height, new_width>>, in double precision as the code computes it:
\* width 4210 gives new_width 3999, and 98 x 392000 gives new_height 0.
ResizedShape(shape) ==
    LET height == shape[1]
        width  == shape[2]
        scale  == FloatMin(FloatDiv(LimitWidth, width), FloatDiv(LimitHeight, height))
    IN <<FloatToInt(FloatTimes(height, scale)), FloatToInt(FloatTimes(width, scale))>>

\* cv2.resize raises when a target dimension is 0
ResizeFails(shape) == ResizedShape(shape)[1] = 0 \/ ResizedShape(shape)[2] = 0

\* cv2.resize(image, None, fx=0.3, fy=0.3) of the filter dialog's previews:
\* each target dimension is 0.3 times the source one, rounded half to even
PreviewDim(n) ==
    LET q == (3 * n) \div 10
        r == (3 * n) % 10
    IN IF r > 5 \/ (r = 5 /\ q % 2 = 1) THEN q + 1 ELSE q

PreviewFails(shape) == PreviewDim(shape[1]) = 0 \/ PreviewDim(shape[2]) = 0

FilterTypes ==
    {"No Filter", "Gaussian Blur", "Median Blur", "Bilateral Filter", "Sharpen"}

\* Images ImageFilterDialog.apply_filter can leave in filtered_image: a copy
\* of the source under No Filter, otherwise what the OpenCV filter returns,
\* an image of the source's shape.
FilteredImages(image, filter_type) ==
    IF filter_type = "No Filter" THEN {image} ELSE ImagesOfShape(image.shape)

----------------------------------------------------------------------------
(* Parameters of ImageFilterDialog.  Sigma and Amount, spin boxes with one *)
(* decimal, are kept in tenths.                                            *)

\* self.current_params = {}
EmptyParams == [param_name \in {} |-> 0]

\* no OpenCV filter call
NoCall == [fn |-> "none"]

\* the parameter widgets update_filter_controls creates per filter type
ParamNames(filter_type) ==
    CASE filter_type = "Gaussian Blur"    -> {"Kernel Size", "Sigma"}
      [] filter_type = "Median Blur"      -> {"Kernel Size"}
      [] filter_type = "Bilateral Filter" -> {"Diameter", "Sigma Color", "Sigma Space"}
      [] filter_type = "Sharpen"          -> {"Amount"}
      [] OTHER                            -> {}

\* default_val of each create_parameter_widget call and of each
\* current_params.get
DefaultValue(param_name) ==
    CASE param_name = "Kernel Size" -> 5
      [] param_name = "Sigma"       -> 10
      [] param_name = "Diameter"    -> 9
      [] param_name = "Sigma Color" -> 75
      [] param_name = "Sigma Space" -> 75
      [] param_name = "Amount"      -> 15

\* spin.setRange(min_val, max_val)
ParamRange(param_name) ==
    CASE param_name = "Kernel Size" -> 1..31
      [] param_name = "Sigma"       -> 1..50
      [] param_name = "Diameter"    -> 1..31
      [] param_name = "Sigma Color" -> 1..150
      [] param_name = "Sigma Space" -> 1..150
      [] param_name = "Amount"      -> 1..50

\* values the user sets the spin boxes to; Sigma Color and Sigma Space are
\* left as they are
SpinValues(param_name) ==
    CASE param_name = "Kernel Size" -> {4, 30, 31}
      [] param_name = "Sigma"       -> {20}
      [] param_name = "Diameter"    -> {5}
      [] param_name = "Sigma Color" -> {}
      [] param_name = "Sigma Space" -> {}
      [] param_name = "Amount"      -> {20}

\* self.current_params.get(param_name, default)
Get(params, param_name, default) ==
    IF param_name \in DOMAIN params THEN params[param_name] ELSE default

\* self.current_params[param_name] = value
Put(params, param_name, value) ==
    [n \in DOMAIN params \cup {param_name} |->
        IF n = param_name THEN value ELSE params[n]]

\* create_parameter_widget for every parameter of the filter type: each
\* stores current_params[param_name] = current_params.get(param_name, default)
WithWidgets(params, filter_type) ==
    [n \in DOMAIN params \cup ParamNames(filter_type) |->
        Get(params, n, DefaultValue(n))]

\* OddKernel passing the kernel size on as entered
OddKernel_AsGiven(kernel_size) == kernel_size

\* kernel_size if kernel_size % 2 == 1 else kernel_size + 1
OddKernel(kernel_size) ==
    IF kernel_size % 2 = 1 THEN kernel_size ELSE kernel_size + 1

\* the OpenCV call apply_filter makes for a filter type and parameters
FilterCall(filter_type, params) ==
    CASE filter_type = "Gaussian Blur" ->
           [fn    |-> "GaussianBlur",
            ksize |-> OddKernel(Get(params, "Kernel Size", 5)),
            sigma |-> Get(params, "Sigma", 10)]
      [] filter_type = "Median Blur" ->
           [fn    |-> "medianBlur",
            ksize |-> OddKernel(Get(params, "Kernel Size", 5))]
      [] filter_type = "Bilateral Filter" ->
           [fn          |-> "bilateralFilter",
            diameter    |-> Get(params, "Diameter", 9),
            sigma_color |-> Get(params, "Sigma Color", 75),
            sigma_space |-> Get(params, "Sigma Space", 75)]
      [] filter_type = "Sharpen" ->
           [fn |-> "filter2D", amount |-> Get(params, "Amount", 15)]
      [] OTHER -> NoCall

----------------------------------------------------------------------------
(* cv2.kmeans and what segment_image derives from its result *)

\* data = np.float32(original_image.reshape((-1, 3))) as cv2.kmeans reads
\* it: one sample per pixel, of three values.  A matrix of a single row,
\* though, is read as a row of one-dimensional samples, so a 1 x 1 image
\* gives three samples of one value each.  Of a larger image these are the
\* samples of the pixels kept.
Samples(image) ==
    IF NumPixels(image.shape) = 1
    THEN [s \in 1..3 |-> <<image.px[1][s]>>]
    ELSE image.px

\* the number of samples cv2.kmeans finds in data
NumSamples(image) ==
    IF NumPixels(image.shape) = 1 THEN 3 ELSE NumPixels(image.shape)

\* cv2.kmeans raises unless 1 <= K <= number of samples
KMeansFails(image, K) == K < 1 \/ NumSamples(image) < K

\* Label arrays: one label in 0..K-1 per sample
LabelArrays(image, K) == [1..Len(Samples(image)) -> 0..(K - 1)]

\* Centres cv2.kmeans can return for an image of which the model keeps only
\* the first pixels, per channel in tenths: each centre is the mean of the
\* many pixels of its cluster.  The outcome depends on the pixels not kept
\* and on the library's random seeding, sampled here by Seeds.
CentreTable ==
    << <<1276, 300, 2550>>, <<64, 1999, 1000>>,
       <<2003, 1281, 7>>,   <<2500, 2505, 1238>> >>
Seeds == 0..3
Centres(seed, K) ==
    [i \in 1..K |-> CentreTable[((i - 1 + seed) % Len(CentreTable)) + 1]]

\* squared distance of a pixel from a centre, in tenths
Distance(colour, centre) ==
    (10 * colour[1] - centre[1]) * (10 * colour[1] - centre[1])
      + (10 * colour[2] - centre[2]) * (10 * colour[2] - centre[2])
      + (10 * colour[3] - centre[3]) * (10 * colour[3] - centre[3])

\* whether centre i is one of the centres nearest to the pixel
IsNearest(colour, centers, i) ==
    \A j \in 1..Len(centers) :
       Distance(colour, centers[i]) <= Distance(colour, centers[j])

\* the label cv2.kmeans gives a pixel: the first of its nearest centres
NearestLabel(colour, centers) ==
    (CHOOSE i \in 1..Len(centers) :
        /\ IsNearest(colour, centers, i)
        /\ \A j \in 1..(i - 1) : ~IsNearest(colour, centers, j)) - 1

\* sum of a sequence of numbers
RECURSIVE SumSeq(_)
SumSeq(numbers) ==
    IF numbers = <<>> THEN 0 ELSE Head(numbers) + SumSeq(Tail(numbers))

\* number of samples that carry the label
ClusterSize(labels, label) ==
    Cardinality({s \in 1..Len(labels) : labels[s] = label})

\* sum of value c over the samples that carry the label
ChannelSum(samples, labels, label, c) ==
    SumSeq([s \in 1..Len(samples) |-> IF labels[s] = label THEN samples[s][c] ELSE 0])

\* the centres of a labelling of all the samples: the mean of each cluster,
\* in tenths
MeanCentres(samples, labels, K) ==
    [i \in 1..K |->
        [c \in 1..Len(samples[1]) |->
           (10 * ChannelSum(samples, labels, i - 1, c)) \div ClusterSize(labels, i - 1)]]

\* squared distance of a sample from the mean of the cluster of a label,
\* times the square of that cluster's size
ScaledDistance(samples, labels, sample, label) ==
    SumSeq([c \in 1..Len(sample) |->
              LET d == ClusterSize(labels, label) * sample[c]
                         - ChannelSum(samples, labels, label, c)
              IN d * d])

\* whether sample s is as near to the mean of its own cluster as to the mean
\* of any other
IsNearestMean(samples, labels, s, K) ==
    \A label \in 0..(K - 1) :
       ScaledDistance(samples, labels, samples[s], labels[s])
          * ClusterSize(labels, label) * ClusterSize(labels, label)
       <= ScaledDistance(samples, labels, samples[s], label)
          * ClusterSize(labels, labels[s]) * ClusterSize(labels, labels[s])

\* a common multiple of all cluster sizes of n samples
RECURSIVE Factorial(_)
Factorial(n) == IF n = 0 THEN 1 ELSE n * Factorial(n - 1)

\* the compactness cv2.kmeans computes for a labelling, the sum of the
\* squared distances of the samples from the means of their clusters, times
\* the square of Factorial(number of samples)
Compactness(samples, labels) ==
    SumSeq([s \in 1..Len(samples) |->
              ScaledDistance(samples, labels, samples[s], labels[s])
                * (Factorial(Len(samples)) \div ClusterSize(labels, labels[s]))
                * (Factorial(Len(samples)) \div ClusterSize(labels, labels[s]))])

\* the labellings of all the samples that cv2.kmeans can end an attempt
\* with: no cluster is empty and each sample is nearest to the mean of its
\* own cluster
StableLabels(samples, image, K) ==
    {labels \in LabelArrays(image, K) :
       /\ \A label \in 0..(K - 1) : \E s \in 1..Len(samples) : labels[s] = label
       /\ \A s \in 1..Len(samples) : IsNearestMean(samples, labels, s, K)}

\* What cv2.kmeans can return, as [labels, centers].  For an image kept
\* whole it is a stable labelling of least compactness (the library keeps
\* the most compact of its attempts) with the means of its clusters, which
\* fixes the outcome up to the numbering of the clusters and to ties; for a
\* larger image the centres are those of Centres and each pixel carries the
\* label of the centre nearest to it.
KMeansOutcomes(image, K) ==
    IF Len(image.px) = NumPixels(image.shape)
    THEN LET samples == Samples(image)
             stable  == StableLabels(samples, image, K)
         IN {[labels  |-> labels,
              centers |-> MeanCentres(samples, labels, K)] :
                labels \in {l \in stable :
                              \A m \in stable :
                                 Compactness(samples, l) <= Compactness(samples, m)}}
    ELSE {[labels  |-> [p \in 1..Len(image.px) |->
                          NearestLabel(image.px[p], Centres(seed, K))],
           centers |-> Centres(seed, K)] : seed \in Seeds}

\* np.uint8(x) of a float x in [0, 256), x given in tenths: the fractional
\* part is dropped
Uint8(tenths) == (tenths \div 10) % 256

\* centers = np.uint8(centers)
Uint8Centres(centers) ==
    [i \in 1..Len(centers) |->
        [c \in 1..Len(centers[i]) |-> Uint8(centers[i][c])]]

\* centers[labels.flatten()].reshape(original_image.shape): the values of
\* the centres in the order of the labels, three to a pixel
SegmentedFrom(image, centers, labels) ==
    LET dims     == Len(centers[1])
        value(j) == centers[labels[((j - 1) \div dims) + 1] + 1][((j - 1) % dims) + 1]
    IN [shape |-> image.shape,
        px    |-> [p \in 1..Len(image.px) |->
                     <<value(3 * p - 2), value(3 * p - 1), value(3 * p)>>]]

\* labels.reshape(original_image.shape[:2]) raises ValueError unless there
\* is one label per pixel
ReshapeRaises(image) == NumSamples(image) /= NumPixels(image.shape)

\* MaskOf with "<=" written for "==": mask i also takes the lower labels
MaskOf_Cumulative(image, labels, i) ==
    [shape |-> image.shape,
     px    |-> [p \in 1..Len(image.px) |-> IF labels[p] <= i THEN 255 ELSE 0]]

\* mask = np.zeros(shape[:2]); mask[labels.reshape(shape[:2]) == i] = 255
MaskOf(image, labels, i) ==
    [shape |-> image.shape,
     px    |-> [p \in 1..Len(image.px) |-> IF labels[p] = i THEN 255 ELSE 0]]

\* the list built by "for i in range(k): ... self.masks.append(mask)"
MasksFrom(image, labels, K) == [i \in 1..K |-> MaskOf(image, labels, i - 1)]

\* AllVisible without "self.cluster_visibility = []": the flags the window
\* already holds stay, and only missing entries are appended as True
AllVisible_KeepsOld(K) ==
    [i \in 1..K |-> IF i <= Len(cluster_visibility) THEN cluster_visibility[i] ELSE TRUE]

\* the list built by "for i in range(k): self.cluster_visibility.append(True)"
AllVisible(K) == [i \in 1..K |-> TRUE]

----------------------------------------------------------------------------
(* The compositor of UniformColorMaskDialog *)

\* the loop "for idx, (mask, is_visible) in enumerate(zip(masks, visibility))"
RECURSIVE CompositeFrom(_, _, _, _, _)
CompositeFrom(combined, idx, image, ms, visibility) ==
    IF idx > Min(Len(ms), Len(visibility)) THEN combined
    ELSE CompositeFrom(IF visibility[idx]
                         THEN CopyWhere(combined, ms[idx], image)
                         ELSE combined,
                       idx + 1, image, ms, visibility)

\* Composite with the loop stopping before the last mask
Composite_SkipsLast(image, ms, visibility) ==
    CompositeFrom(ZerosLike(image), 1, image,
                  SubSeq(ms, 1, Len(ms) - 1), visibility)

\* combined_image of update_visibility and apply_visibility
Composite(image, ms, visibility) ==
    CompositeFrom(ZerosLike(image), 1, image, ms, visibility)

----------------------------------------------------------------------------
(* Initial state: KMeansSegmentationApp.__init__ *)

Init ==
    /\ original_image = None
    /\ segmented_image = None
    /\ dominant_colors = <<>>
    /\ masks = <<>>
    /\ cluster_visibility = <<>>
    /\ cluster_input = <<"3">>
    /\ k_slider = 3
    /\ filter_button = FALSE
    /\ segment_button = FALSE
    /\ save_button = FALSE
    /\ show_masks_button = FALSE
    /\ window_enabled = TRUE
    /\ pc = "idle"
    /\ k = 0
    /\ dlg_visibility = <<>>
    /\ dlg_aliased = FALSE
    /\ dlg_preview = None
    /\ dlg_mask_images = <<>>
    /\ written = <<>>
    /\ flt_original_image = None
    /\ filtered_image = None
    /\ filter_combo = "No Filter"
    /\ current_params = EmptyParams
    /\ cv_call = NoCall

\* An exception that leaves a slot unhandled: PyQt5 either aborts the process
\* (qFatal) or prints the traceback and returns to the event loop, depending
\* on its version.  Nothing else changes.
UnhandledException ==
    /\ pc' \in {"idle", "aborted"}
    /\ UNCHANGED <<original_image, results, inputs, buttons, window_enabled, k, dialog, elsewhere>>

\* A handler of the main window runs when Qt dispatches a user event to the
\* window: from the main event loop ("idle") or from the
\* QApplication.processEvents() call of segment_image ("segmenting"), and
\* only while the window is enabled.
Dispatched == window_enabled /\ pc \in {"idle", "segmenting"}

----------------------------------------------------------------------------
(* Cluster-count field and slider *)

\* QLineEdit.setText / typing, followed by the textChanged -> update_slider ->
\* valueChanged -> update_cluster_input chain
SetText(text) ==
    IF IsDigit(text) /\ IntOf(text) >= MinClusters /\ IntOf(text) <= MaxClusters
       /\ IntOf(text) /= k_slider
    THEN /\ k_slider' = IntOf(text)
         /\ cluster_input' = Str(IntOf(text))
    ELSE /\ cluster_input' = text
         /\ UNCHANGED k_slider

\* The user edits the field; the validator refuses texts that are Invalid.
type_cluster_input ==
    /\ Dispatched
    /\ \E text \in TypedTexts :
         /\ ValidatorState(text) /= "Invalid"
         /\ text /= cluster_input
         /\ SetText(text)
    /\ UNCHANGED <<original_image, results, buttons, window_enabled, pc, k, dialog, elsewhere>>

\* The user moves the slider: valueChanged -> update_cluster_input
update_cluster_input ==
    /\ Dispatched
    /\ \E value \in SliderMoves :
         /\ value /= k_slider
         /\ k_slider' = value
         /\ cluster_input' = Str(value)
    /\ UNCHANGED <<original_image, results, buttons, window_enabled, pc, k, dialog, elsewhere>>

\* The field loses the focus (a click on a button, Tab) or Return is pressed
\* in it: unless its text is Acceptable, QLineEdit lets the validator fix it
\* up and takes the fixed text if that is Acceptable ("5," becomes "5").
focus_out_cluster_input ==
    /\ Dispatched
    /\ ValidatorState(cluster_input) /= "Acceptable"
    /\ ValidatorState(FixedUp(cluster_input)) = "Acceptable"
    /\ SetText(FixedUp(cluster_input))
    /\ UNCHANGED <<original_image, results, buttons, window_enabled, pc, k, dialog, elsewhere>>

----------------------------------------------------------------------------
(* Main window handlers *)

\* ResetSegmentation without the line that empties cluster_visibility
ResetSegmentation_KeepsVisibility ==
    /\ segmented_image' = None
    /\ dominant_colors' = <<>>
    /\ masks' = <<>>
    /\ cluster_visibility' = cluster_visibility
    /\ show_masks_button' = FALSE
    /\ save_button' = FALSE

\* "Reset previous segmentation results" of load_image and
\* "Reset segmentation results since image has changed" of show_filters
ResetSegmentation ==
    /\ segmented_image' = None
    /\ dominant_colors' = <<>>
    /\ masks' = <<>>
    /\ cluster_visibility' = <<>>
    /\ show_masks_button' = FALSE
    /\ save_button' = FALSE

\* load_image from display_image on, once original_image holds the new image
LoadSucceeds ==
    /\ filter_button' = TRUE
    /\ segment_button' = TRUE
    /\ ResetSegmentation
    /\ UNCHANGED <<inputs, window_enabled, pc, k, dialog, elsewhere>>

\* load_image when an exception reaches its except clause: everything but
\* original_image is as before
LoadFails ==
    UNCHANGED <<results, inputs, buttons, window_enabled, pc, k, dialog, elsewhere>>

\* cv2.imread raised or returned None, or cv2.resize raised
LoadRaises(file_path) ==
    \/ ImreadRaises(file_path)
    \/ imread(file_path) = None
    \/ /\ NumPixels(imread(file_path).shape) > LimitWidth * LimitHeight
       /\ ResizeFails(imread(file_path).shape)

\* images a load that raises nothing can leave in original_image: the decoded
\* image, or what cv2.resize makes of it when it exceeds 4000 * 3000 pixels
LoadedImages(file_path) ==
    IF NumPixels(imread(file_path).shape) > LimitWidth * LimitHeight
    THEN ImagesOfShape(ResizedShape(imread(file_path).shape))
    ELSE {imread(file_path)}

\* ImreadRaises, LoadRaises and LoadedImages of every file, worked out once
Loads ==
    [file_path \in Files \cup SizedFiles |->
        [unread |-> ImreadRaises(file_path),
         raises |-> LoadRaises(file_path),
         images |-> IF LoadRaises(file_path) THEN {} ELSE LoadedImages(file_path)]]

\* the body of "if file_path:".  When cv2.imread raises, the assignment of
\* line 878 does not happen; when a later statement raises, original_image
\* already holds what cv2.imread returned.
load_image_from(file_path) ==
    IF Loads[file_path].unread
    THEN /\ UNCHANGED original_image
         /\ LoadFails
    ELSE IF Loads[file_path].raises
    THEN /\ original_image' = imread(file_path)
         /\ LoadFails
    ELSE /\ LoadSucceeds
         /\ original_image' \in Loads[file_path].images

load_image ==
    /\ Dispatched
    /\ \E file_path \in Files \cup {""} :
         IF file_path = "" THEN UNCHANGED vars
         ELSE load_image_from(file_path)

\* load_image on one of the files of SizedFiles
load_sized_image ==
    /\ Dispatched
    /\ \E file_path \in SizedFiles : load_image_from(file_path)

\* segment_image_begin without self.setEnabled(False)
segment_image_begin_StaysEnabled ==
    /\ Dispatched
    /\ segment_button
    /\ IF original_image = None THEN UNCHANGED vars
       ELSE IF IntRaises(cluster_input) THEN UnhandledException
       ELSE /\ k' = ParseInt(cluster_input)
            /\ pc' = "segmenting"
            /\ UNCHANGED <<original_image, results, inputs, buttons, dialog,
                           elsewhere, window_enabled>>

\* segment_image up to and including setEnabled(False)
segment_image_begin ==
    /\ Dispatched
    /\ segment_button
    /\ IF original_image = None THEN UNCHANGED vars
       ELSE IF IntRaises(cluster_input) THEN UnhandledException
       ELSE /\ k' = ParseInt(cluster_input)
            /\ window_enabled' = FALSE
            /\ pc' = "segmenting"
            /\ UNCHANGED <<original_image, results, inputs, buttons, dialog, elsewhere>>

\* segment_image from the try block to the end of the finally clause.  When
\* cv2.kmeans raises nothing has been assigned.  When the reshape of line
\* 1004 raises, in the first round of the loop, segmented_image and
\* dominant_colors hold the new values, masks and cluster_visibility are the
\* empty lists of lines 1000-1001 and the buttons are as they were.
segment_image_cluster ==
    /\ pc = "segmenting"
    /\ IF KMeansFails(original_image, k)
       THEN UNCHANGED <<results, buttons>>
       ELSE \E outcome \in KMeansOutcomes(original_image, k) :
              LET labels  == outcome.labels
                  centers == Uint8Centres(outcome.centers) IN
                /\ segmented_image' = SegmentedFrom(original_image, centers, labels)
                /\ dominant_colors' = centers
                /\ IF ReshapeRaises(original_image)
                   THEN /\ masks' = <<>>
                        /\ cluster_visibility' = <<>>
                        /\ UNCHANGED buttons
                   ELSE /\ masks' = MasksFrom(original_image, labels, k)
                        /\ cluster_visibility' = AllVisible(k)
                        /\ show_masks_button' = TRUE
                        /\ save_button' = TRUE
                        /\ UNCHANGED <<filter_button, segment_button>>
    /\ window_enabled' = TRUE
    /\ pc' = "idle"
    /\ k' = 0
    /\ UNCHANGED <<original_image, inputs, dialog, elsewhere>>

----------------------------------------------------------------------------
(* Mask dialog: show_masks and the handlers of UniformColorMaskDialog *)

DialogClosed ==
    /\ dlg_visibility' = <<>>
    /\ dlg_aliased' = FALSE
    /\ dlg_preview' = None
    /\ dlg_mask_images' = <<>>

\* show_masks up to dialog.exec_(): UniformColorMaskDialog.__init__ takes
\* "initial_visibility or [True] * len(masks)", the caller's list itself
\* unless it is empty, builds one coloured mask image per cluster (boolean
\* indexing of zeros_like(original_image)) and ends with update_visibility
show_masks ==
    /\ Dispatched
    /\ show_masks_button
    /\ IF masks = <<>> \/ dominant_colors = <<>> THEN UNCHANGED vars
       ELSE IF \E i \in 1..Min(Len(masks), Len(dominant_colors)) :
                  ~CanIndex(original_image, masks[i])
       THEN UnhandledException
       ELSE LET visibility == IF cluster_visibility /= <<>>
                              THEN cluster_visibility
                              ELSE AllVisible(Len(masks))
            IN /\ dlg_visibility' = visibility
               /\ dlg_aliased' = (cluster_visibility /= <<>>)
               /\ dlg_preview' = Composite(original_image, masks, visibility)
               /\ dlg_mask_images' =
                     [i \in 1..Min(Len(masks), Len(dominant_colors)) |->
                        MaskColorImage(original_image, masks[i], dominant_colors[i])]
               /\ pc' = "mask_dialog"
               /\ UNCHANGED <<original_image, results, inputs, buttons,
                              window_enabled, k, elsewhere>>

\* update_cluster_visibility drawing onto the preview already shown instead
\* of a zeroed canvas
update_cluster_visibility_OntoPreview ==
    /\ pc = "mask_dialog"
    /\ \E idx \in 1..Len(dlg_visibility) :
         LET visibility == [dlg_visibility EXCEPT ![idx] = ~dlg_visibility[idx]]
         IN /\ dlg_visibility' = visibility
            /\ cluster_visibility' =
                  IF dlg_aliased THEN visibility ELSE cluster_visibility
            /\ dlg_preview' =
                  CompositeFrom(dlg_preview, 1, original_image, masks, visibility)
    /\ UNCHANGED <<original_image, segmented_image, dominant_colors, masks,
                   inputs, buttons, window_enabled, pc, k, dlg_aliased,
                   dlg_mask_images, elsewhere>>

\* A checkbox is clicked: stateChanged -> update_cluster_visibility(idx, state)
\* -> update_visibility.  The assignment goes through the list object, so it
\* shows in the main window's list while the two are one object.
update_cluster_visibility ==
    /\ pc = "mask_dialog"
    /\ \E idx \in 1..Len(dlg_visibility) :
         LET visibility == [dlg_visibility EXCEPT ![idx] = ~dlg_visibility[idx]]
         IN /\ dlg_visibility' = visibility
            /\ cluster_visibility' =
                  IF dlg_aliased THEN visibility ELSE cluster_visibility
            /\ dlg_preview' = Composite(original_image, masks, visibility)
    /\ UNCHANGED <<original_image, segmented_image, dominant_colors, masks,
                   inputs, buttons, window_enabled, pc, k, dlg_aliased, dlg_mask_images, elsewhere>>

\* Reset All: every unchecked box is checked (each firing
\* update_cluster_visibility on the current list), then the dialog takes a
\* fresh all-true list
reset_visibility ==
    /\ pc = "mask_dialog"
    /\ cluster_visibility' =
          IF dlg_aliased THEN AllVisible(Len(dlg_visibility)) ELSE cluster_visibility
    /\ dlg_visibility' = AllVisible(Len(masks))
    /\ dlg_aliased' = FALSE
    /\ dlg_preview' = Composite(original_image, masks, AllVisible(Len(masks)))
    /\ UNCHANGED <<original_image, segmented_image, dominant_colors, masks,
                   inputs, buttons, window_enabled, pc, k, dlg_mask_images, elsewhere>>

\* apply_visibility writing the composite to parent.original_image
apply_visibility_OverwritesOriginal ==
    /\ pc = "mask_dialog"
    /\ original_image' = Composite(original_image, masks, dlg_visibility)
    /\ cluster_visibility' = dlg_visibility
    /\ DialogClosed
    /\ pc' = "idle"
    /\ UNCHANGED <<segmented_image, dominant_colors, masks, inputs, buttons,
                   window_enabled, k, elsewhere>>

\* Apply Changes
apply_visibility ==
    /\ pc = "mask_dialog"
    /\ segmented_image' = Composite(original_image, masks, dlg_visibility)
    /\ cluster_visibility' = dlg_visibility
    /\ DialogClosed
    /\ pc' = "idle"
    /\ UNCHANGED <<original_image, dominant_colors, masks, inputs, buttons,
                   window_enabled, k, elsewhere>>

\* Close button or window close
close_dialog ==
    /\ pc = "mask_dialog"
    /\ DialogClosed
    /\ pc' = "idle"
    /\ UNCHANGED <<original_image, results, inputs, buttons, window_enabled, k, elsewhere>>

----------------------------------------------------------------------------
(* ImageFilterDialog, handler by handler *)

FilterDialogClosed ==
    /\ flt_original_image' = None
    /\ filtered_image' = None
    /\ filter_combo' = "No Filter"
    /\ current_params' = EmptyParams
    /\ cv_call' = NoCall

\* apply_filter storing the filter's result in original_image as well
apply_filter_InPlace(filter_type, params) ==
    /\ filtered_image' \in FilteredImages(flt_original_image, filter_type)
    /\ flt_original_image' = filtered_image'
    /\ cv_call' = FilterCall(filter_type, params)

\* apply_filter for the filter type and parameters now set
apply_filter(filter_type, params) ==
    /\ filtered_image' \in FilteredImages(flt_original_image, filter_type)
    /\ cv_call' = FilterCall(filter_type, params)
    /\ UNCHANGED flt_original_image

\* show_filters up to dialog.exec_(): ImageFilterDialog.__init__ copies the
\* image twice and draws the previews
open_filters ==
    /\ Dispatched
    /\ filter_button
    /\ IF original_image = None THEN UNCHANGED vars
       ELSE IF PreviewFails(original_image.shape) THEN UnhandledException
       ELSE /\ flt_original_image' = original_image
            /\ filtered_image' = original_image
            /\ filter_combo' = "No Filter"
            /\ current_params' = EmptyParams
            /\ cv_call' = NoCall
            /\ pc' = "filter_dialog"
            /\ UNCHANGED <<original_image, results, inputs, buttons,
                           window_enabled, k, dialog, written>>

\* the user picks another filter type: currentTextChanged ->
\* update_filter_controls
update_filter_controls ==
    /\ pc = "filter_dialog"
    /\ \E filter_type \in FilterTypes \ {filter_combo} :
         /\ filter_combo' = filter_type
         /\ current_params' = WithWidgets(current_params, filter_type)
         /\ apply_filter(filter_type, current_params')
    /\ UNCHANGED <<original_image, results, inputs, buttons, window_enabled,
                   pc, k, dialog, written>>

\* the user changes a spin box: valueChanged -> update_parameter
update_parameter ==
    /\ pc = "filter_dialog"
    /\ \E param_name \in ParamNames(filter_combo) :
         \E value \in SpinValues(param_name) \cap ParamRange(param_name) :
            /\ value /= current_params[param_name]
            /\ current_params' = Put(current_params, param_name, value)
            /\ apply_filter(filter_combo, current_params')
    /\ UNCHANGED <<original_image, results, inputs, buttons, window_enabled,
                   pc, k, dialog, written, filter_combo>>

\* Reset: setCurrentText("No Filter") (which runs update_filter_controls if
\* the text changes), then filtered_image = original_image.copy()
reset_filters ==
    /\ pc = "filter_dialog"
    /\ filter_combo' = "No Filter"
    /\ filtered_image' = flt_original_image
    /\ cv_call' = NoCall
    /\ UNCHANGED <<original_image, results, inputs, buttons, window_enabled,
                   pc, k, dialog, written, flt_original_image, current_params>>

\* Apply: accept(), after which show_filters takes get_filtered_image()
accept_filters ==
    /\ pc = "filter_dialog"
    /\ original_image' = filtered_image
    /\ ResetSegmentation
    /\ FilterDialogClosed
    /\ pc' = "idle"
    /\ UNCHANGED <<inputs, filter_button, segment_button, window_enabled, k,
                   dialog, written>>

\* Cancel or window close: reject()
reject_filters ==
    /\ pc = "filter_dialog"
    /\ FilterDialogClosed
    /\ pc' = "idle"
    /\ UNCHANGED <<original_image, results, inputs, buttons, window_enabled,
                   k, dialog, written>>

----------------------------------------------------------------------------
(* save_segments *)

\* A file path is a Python str, kept as the sequence of its code points.
\* Paths are those of a POSIX system: "/" separates the components.

\* the printable ASCII characters from the space (code point 32) to "_"
\* (95), and from "a" (97) to "~" (126); the grave accent (96) between them
\* cannot stand in a string of this module
AsciiLow ==
    <<" ", "!", "\"", "#", "$", "%", "&", "'", "(", ")", "*", "+", ",", "-",
      ".", "/", "0", "1", "2", "3", "4", "5", "6", "7", "8", "9", ":", ";",
      "<", "=", ">", "?", "@", "A", "B", "C", "D", "E", "F", "G", "H", "I",
      "J", "K", "L", "M", "N", "O", "P", "Q", "R", "S", "T", "U", "V", "W",
      "X", "Y", "Z", "[", "\\", "]", "^", "_">>
AsciiHigh ==
    <<"a", "b", "c", "d", "e", "f", "g", "h", "i", "j", "k", "l", "m", "n",
      "o", "p", "q", "r", "s", "t", "u", "v", "w", "x", "y", "z", "{", "|",
      "}", "~">>

\* ord(c) of one of these characters
Ord(c) ==
    IF \E i \in 1..Len(AsciiLow) : AsciiLow[i] = c
    THEN 31 + CHOOSE i \in 1..Len(AsciiLow) : AsciiLow[i] = c
    ELSE 96 + CHOOSE i \in 1..Len(AsciiHigh) : AsciiHigh[i] = c

\* the code points of a sequence of printable ASCII characters
Codes(chars) == [i \in 1..Len(chars) |-> Ord(chars[i])]

\* Paths the save dialog returns: "out", "out.JPG" and a name with capital
\* E acute, (201) ".Png"; <<>> is the empty string of Cancel.
SavePaths ==
    {<<>>,
     Codes(<<"o", "u", "t">>),
     Codes(<<"o", "u", "t", ".", "J", "P", "G">>),
     <<201>> \o Codes(<<".", "P", "n", "g">>)}

(* The case tables of str.lower() in Python 3.11, those of Unicode 14. *)

\* The simple lowercase mappings, as <<first, last, step, delta>>: the code
\* points first, first + step, ... up to last each lower to themselves plus
\* delta.
LowerRules ==
    { <<65, 90, 1, 32>>, <<192, 214, 1, 32>>, <<216, 222, 1, 32>>, <<256, 302, 2, 1>>,
      <<306, 310, 2, 1>>, <<313, 327, 2, 1>>, <<330, 374, 2, 1>>, <<376, 376, 1, -121>>,
      <<377, 381, 2, 1>>, <<385, 385, 1, 210>>, <<386, 388, 2, 1>>, <<390, 390, 1, 206>>,
      <<391, 391, 1, 1>>, <<393, 394, 1, 205>>, <<395, 395, 1, 1>>, <<398, 398, 1, 79>>,
      <<399, 399, 1, 202>>, <<400, 400, 1, 203>>, <<401, 401, 1, 1>>, <<403, 403, 1, 205>>,
      <<404, 404, 1, 207>>, <<406, 406, 1, 211>>, <<407, 407, 1, 209>>, <<408, 408, 1, 1>>,
      <<412, 412, 1, 211>>, <<413, 413, 1, 213>>, <<415, 415, 1, 214>>, <<416, 420, 2, 1>>,
      <<422, 422, 1, 218>>, <<423, 423, 1, 1>>, <<425, 425, 1, 218>>, <<428, 428, 1, 1>>,
      <<430, 430, 1, 218>>, <<431, 431, 1, 1>>, <<433, 434, 1, 217>>, <<435, 437, 2, 1>>,
      <<439, 439, 1, 219>>, <<440, 440, 1, 1>>, <<444, 444, 1, 1>>, <<452, 452, 1, 2>>,
      <<453, 453, 1, 1>>, <<455, 455, 1, 2>>, <<456, 456, 1, 1>>, <<458, 458, 1, 2>>,
      <<459, 475, 2, 1>>, <<478, 494, 2, 1>>, <<497, 497, 1, 2>>, <<498, 500, 2, 1>>,
      <<502, 502, 1, -97>>, <<503, 503, 1, -56>>, <<504, 542, 2, 1>>, <<544, 544, 1, -130>>,
      <<546, 562, 2, 1>>, <<570, 570, 1, 10795>>, <<571, 571, 1, 1>>, <<573, 573, 1, -163>>,
      <<574, 574, 1, 10792>>, <<577, 577, 1, 1>>, <<579, 579, 1, -195>>, <<580, 580, 1, 69>>,
      <<581, 581, 1, 71>>, <<582, 590, 2, 1>>, <<880, 882, 2, 1>>, <<886, 886, 1, 1>>,
      <<895, 895, 1, 116>>, <<902, 902, 1, 38>>, <<904, 906, 1, 37>>, <<908, 908, 1, 64>>,
      <<910, 911, 1, 63>>, <<913, 929, 1, 32>>, <<932, 939, 1, 32>>, <<975, 975, 1, 8>>,
      <<984, 1006, 2, 1>>, <<1012, 1012, 1, -60>>, <<1015, 1015, 1, 1>>, <<1017, 1017, 1, -7>>,
      <<1018, 1018, 1, 1>>, <<1021, 1023, 1, -130>>, <<1024, 1039, 1, 80>>,
      <<1040, 1071, 1, 32>>, <<1120, 1152, 2, 1>>, <<1162, 1214, 2, 1>>, <<1216, 1216, 1, 15>>,
      <<1217, 1229, 2, 1>>, <<1232, 1326, 2, 1>>, <<1329, 1366, 1, 48>>,
      <<4256, 4293, 1, 7264>>, <<4295, 4295, 1, 7264>>, <<4301, 4301, 1, 7264>>,
      <<5024, 5103, 1, 38864>>, <<5104, 5109, 1, 8>>, <<7312, 7354, 1, -3008>>,
      <<7357, 7359, 1, -3008>>, <<7680, 7828, 2, 1>>, <<7838, 7838, 1, -7615>>,
      <<7840, 7934, 2, 1>>, <<7944, 7951, 1, -8>>, <<7960, 7965, 1, -8>>,
      <<7976, 7983, 1, -8>>, <<7992, 7999, 1, -8>>, <<8008, 8013, 1, -8>>,
      <<8025, 8031, 2, -8>>, <<8040, 8047, 1, -8>>, <<8072, 8079, 1, -8>>,
      <<8088, 8095, 1, -8>>, <<8104, 8111, 1, -8>>, <<8120, 8121, 1, -8>>,
      <<8122, 8123, 1, -74>>, <<8124, 8124, 1, -9>>, <<8136, 8139, 1, -86>>,
      <<8140, 8140, 1, -9>>, <<8152, 8153, 1, -8>>, <<8154, 8155, 1, -100>>,
      <<8168, 8169, 1, -8>>, <<8170, 8171, 1, -112>>, <<8172, 8172, 1, -7>>,
      <<8184, 8185, 1, -128>>, <<8186, 8187, 1, -126>>, <<8188, 8188, 1, -9>>,
      <<8486, 8486, 1, -7517>>, <<8490, 8490, 1, -8383>>, <<8491, 8491, 1, -8262>>,
      <<8498, 8498, 1, 28>>, <<8544, 8559, 1, 16>>, <<8579, 8579, 1, 1>>,
      <<9398, 9423, 1, 26>>, <<11264, 11311, 1, 48>>, <<11360, 11360, 1, 1>>,
      <<11362, 11362, 1, -10743>>, <<11363, 11363, 1, -3814>>, <<11364, 11364, 1, -10727>>,
      <<11367, 11371, 2, 1>>, <<11373, 11373, 1, -10780>>, <<11374, 11374, 1, -10749>>,
      <<11375, 11375, 1, -10783>>, <<11376, 11376, 1, -10782>>, <<11378, 11378, 1, 1>>,
      <<11381, 11381, 1, 1>>, <<11390, 11391, 1, -10815>>, <<11392, 11490, 2, 1>>,
      <<11499, 11501, 2, 1>>, <<11506, 11506, 1, 1>>, <<42560, 42604, 2, 1>>,
      <<42624, 42650, 2, 1>>, <<42786, 42798, 2, 1>>, <<42802, 42862, 2, 1>>,
      <<42873, 42875, 2, 1>>, <<42877, 42877, 1, -35332>>, <<42878, 42886, 2, 1>>,
      <<42891, 42891, 1, 1>>, <<42893, 42893, 1, -42280>>, <<42896, 42898, 2, 1>>,
      <<42902, 42920, 2, 1>>, <<42922, 42922, 1, -42308>>, <<42923, 42923, 1, -42319>>,
      <<42924, 42924, 1, -42315>>, <<42925, 42925, 1, -42305>>, <<42926, 42926, 1, -42308>>,
      <<42928, 42928, 1, -42258>>, <<42929, 42929, 1, -42282>>, <<42930, 42930, 1, -42261>>,
      <<42931, 42931, 1, 928>>, <<42932, 42946, 2, 1>>, <<42948, 42948, 1, -48>>,
      <<42949, 42949, 1, -42307>>, <<42950, 42950, 1, -35384>>, <<42951, 42953, 2, 1>>,
      <<42960, 42960, 1, 1>>, <<42966, 42968, 2, 1>>, <<42997, 42997, 1, 1>>,
      <<65313, 65338, 1, 32>>, <<66560, 66599, 1, 40>>, <<66736, 66771, 1, 40>>,
      <<66928, 66938, 1, 39>>, <<66940, 66954, 1, 39>>, <<66956, 66962, 1, 39>>,
      <<66964, 66965, 1, 39>>, <<68736, 68786, 1, 64>>, <<71840, 71871, 1, 32>>,
      <<93760, 93791, 1, 32>>, <<125184, 125217, 1, 34>> }

\* the code points with the property Cased, as ranges <<first, last>>
CasedRanges ==
    { <<65, 90>>, <<97, 122>>, <<170, 170>>, <<181, 181>>, <<186, 186>>, <<192, 214>>,
      <<216, 246>>, <<248, 442>>, <<444, 447>>, <<452, 659>>, <<661, 696>>, <<704, 705>>,
      <<736, 740>>, <<837, 837>>, <<880, 883>>, <<886, 887>>, <<890, 893>>, <<895, 895>>,
      <<902, 902>>, <<904, 906>>, <<908, 908>>, <<910, 929>>, <<931, 1013>>, <<1015, 1153>>,
      <<1162, 1327>>, <<1329, 1366>>, <<1376, 1416>>, <<4256, 4293>>, <<4295, 4295>>,
      <<4301, 4301>>, <<4304, 4346>>, <<4349, 4351>>, <<5024, 5109>>, <<5112, 5117>>,
      <<7296, 7304>>, <<7312, 7354>>, <<7357, 7359>>, <<7424, 7615>>, <<7680, 7957>>,
      <<7960, 7965>>, <<7968, 8005>>, <<8008, 8013>>, <<8016, 8023>>, <<8025, 8025>>,
      <<8027, 8027>>, <<8029, 8029>>, <<8031, 8061>>, <<8064, 8116>>, <<8118, 8124>>,
      <<8126, 8126>>, <<8130, 8132>>, <<8134, 8140>>, <<8144, 8147>>, <<8150, 8155>>,
      <<8160, 8172>>, <<8178, 8180>>, <<8182, 8188>>, <<8305, 8305>>, <<8319, 8319>>,
      <<8336, 8348>>, <<8450, 8450>>, <<8455, 8455>>, <<8458, 8467>>, <<8469, 8469>>,
      <<8473, 8477>>, <<8484, 8484>>, <<8486, 8486>>, <<8488, 8488>>, <<8490, 8493>>,
      <<8495, 8500>>, <<8505, 8505>>, <<8508, 8511>>, <<8517, 8521>>, <<8526, 8526>>,
      <<8544, 8575>>, <<8579, 8580>>, <<9398, 9449>>, <<11264, 11492>>, <<11499, 11502>>,
      <<11506, 11507>>, <<11520, 11557>>, <<11559, 11559>>, <<11565, 11565>>, <<42560, 42605>>,
      <<42624, 42653>>, <<42786, 42887>>, <<42891, 42894>>, <<42896, 42954>>, <<42960, 42961>>,
      <<42963, 42963>>, <<42965, 42969>>, <<42997, 42998>>, <<43000, 43002>>, <<43824, 43866>>,
      <<43868, 43880>>, <<43888, 43967>>, <<64256, 64262>>, <<64275, 64279>>, <<65313, 65338>>,
      <<65345, 65370>>, <<66560, 66639>>, <<66736, 66771>>, <<66776, 66811>>, <<66928, 66938>>,
      <<66940, 66954>>, <<66956, 66962>>, <<66964, 66965>>, <<66967, 66977>>, <<66979, 66993>>,
      <<66995, 67001>>, <<67003, 67004>>, <<67456, 67456>>, <<67459, 67461>>, <<67463, 67504>>,
      <<67506, 67514>>, <<68736, 68786>>, <<68800, 68850>>, <<71840, 71903>>, <<93760, 93823>>,
      <<119808, 119892>>, <<119894, 119964>>, <<119966, 119967>>, <<119970, 119970>>,
      <<119973, 119974>>, <<119977, 119980>>, <<119982, 119993>>, <<119995, 119995>>,
      <<119997, 120003>>, <<120005, 120069>>, <<120071, 120074>>, <<120077, 120084>>,
      <<120086, 120092>>, <<120094, 120121>>, <<120123, 120126>>, <<120128, 120132>>,
      <<120134, 120134>>, <<120138, 120144>>, <<120146, 120485>>, <<120488, 120512>>,
      <<120514, 120538>>, <<120540, 120570>>, <<120572, 120596>>, <<120598, 120628>>,
      <<120630, 120654>>, <<120656, 120686>>, <<120688, 120712>>, <<120714, 120744>>,
      <<120746, 120770>>, <<120772, 120779>>, <<122624, 122633>>, <<122635, 122654>>,
      <<125184, 125251>>, <<127280, 127305>>, <<127312, 127337>>, <<127344, 127369>> }

\* the code points with the property Case_Ignorable, as ranges
CaseIgnorableRanges ==
    { <<39, 39>>, <<46, 46>>, <<58, 58>>, <<94, 94>>, <<96, 96>>, <<168, 168>>, <<173, 173>>,
      <<175, 175>>, <<180, 180>>, <<183, 184>>, <<688, 879>>, <<884, 885>>, <<890, 890>>,
      <<900, 901>>, <<903, 903>>, <<1155, 1161>>, <<1369, 1369>>, <<1375, 1375>>,
      <<1425, 1469>>, <<1471, 1471>>, <<1473, 1474>>, <<1476, 1477>>, <<1479, 1479>>,
      <<1524, 1524>>, <<1536, 1541>>, <<1552, 1562>>, <<1564, 1564>>, <<1600, 1600>>,
      <<1611, 1631>>, <<1648, 1648>>, <<1750, 1757>>, <<1759, 1768>>, <<1770, 1773>>,
      <<1807, 1807>>, <<1809, 1809>>, <<1840, 1866>>, <<1958, 1968>>, <<2027, 2037>>,
      <<2042, 2042>>, <<2045, 2045>>, <<2070, 2093>>, <<2137, 2139>>, <<2184, 2184>>,
      <<2192, 2193>>, <<2200, 2207>>, <<2249, 2306>>, <<2362, 2362>>, <<2364, 2364>>,
      <<2369, 2376>>, <<2381, 2381>>, <<2385, 2391>>, <<2402, 2403>>, <<2417, 2417>>,
      <<2433, 2433>>, <<2492, 2492>>, <<2497, 2500>>, <<2509, 2509>>, <<2530, 2531>>,
      <<2558, 2558>>, <<2561, 2562>>, <<2620, 2620>>, <<2625, 2626>>, <<2631, 2632>>,
      <<2635, 2637>>, <<2641, 2641>>, <<2672, 2673>>, <<2677, 2677>>, <<2689, 2690>>,
      <<2748, 2748>>, <<2753, 2757>>, <<2759, 2760>>, <<2765, 2765>>, <<2786, 2787>>,
      <<2810, 2815>>, <<2817, 2817>>, <<2876, 2876>>, <<2879, 2879>>, <<2881, 2884>>,
      <<2893, 2893>>, <<2901, 2902>>, <<2914, 2915>>, <<2946, 2946>>, <<3008, 3008>>,
      <<3021, 3021>>, <<3072, 3072>>, <<3076, 3076>>, <<3132, 3132>>, <<3134, 3136>>,
      <<3142, 3144>>, <<3146, 3149>>, <<3157, 3158>>, <<3170, 3171>>, <<3201, 3201>>,
      <<3260, 3260>>, <<3263, 3263>>, <<3270, 3270>>, <<3276, 3277>>, <<3298, 3299>>,
      <<3328, 3329>>, <<3387, 3388>>, <<3393, 3396>>, <<3405, 3405>>, <<3426, 3427>>,
      <<3457, 3457>>, <<3530, 3530>>, <<3538, 3540>>, <<3542, 3542>>, <<3633, 3633>>,
      <<3636, 3642>>, <<3654, 3662>>, <<3761, 3761>>, <<3764, 3772>>, <<3782, 3782>>,
      <<3784, 3789>>, <<3864, 3865>>, <<3893, 3893>>, <<3895, 3895>>, <<3897, 3897>>,
      <<3953, 3966>>, <<3968, 3972>>, <<3974, 3975>>, <<3981, 3991>>, <<3993, 4028>>,
      <<4038, 4038>>, <<4141, 4144>>, <<4146, 4151>>, <<4153, 4154>>, <<4157, 4158>>,
      <<4184, 4185>>, <<4190, 4192>>, <<4209, 4212>>, <<4226, 4226>>, <<4229, 4230>>,
      <<4237, 4237>>, <<4253, 4253>>, <<4348, 4348>>, <<4957, 4959>>, <<5906, 5908>>,
      <<5938, 5939>>, <<5970, 5971>>, <<6002, 6003>>, <<6068, 6069>>, <<6071, 6077>>,
      <<6086, 6086>>, <<6089, 6099>>, <<6103, 6103>>, <<6109, 6109>>, <<6155, 6159>>,
      <<6211, 6211>>, <<6277, 6278>>, <<6313, 6313>>, <<6432, 6434>>, <<6439, 6440>>,
      <<6450, 6450>>, <<6457, 6459>>, <<6679, 6680>>, <<6683, 6683>>, <<6742, 6742>>,
      <<6744, 6750>>, <<6752, 6752>>, <<6754, 6754>>, <<6757, 6764>>, <<6771, 6780>>,
      <<6783, 6783>>, <<6823, 6823>>, <<6832, 6862>>, <<6912, 6915>>, <<6964, 6964>>,
      <<6966, 6970>>, <<6972, 6972>>, <<6978, 6978>>, <<7019, 7027>>, <<7040, 7041>>,
      <<7074, 7077>>, <<7080, 7081>>, <<7083, 7085>>, <<7142, 7142>>, <<7144, 7145>>,
      <<7149, 7149>>, <<7151, 7153>>, <<7212, 7219>>, <<7222, 7223>>, <<7288, 7293>>,
      <<7376, 7378>>, <<7380, 7392>>, <<7394, 7400>>, <<7405, 7405>>, <<7412, 7412>>,
      <<7416, 7417>>, <<7468, 7530>>, <<7544, 7544>>, <<7579, 7679>>, <<8125, 8125>>,
      <<8127, 8129>>, <<8141, 8143>>, <<8157, 8159>>, <<8173, 8175>>, <<8189, 8190>>,
      <<8203, 8207>>, <<8216, 8217>>, <<8228, 8228>>, <<8231, 8231>>, <<8234, 8238>>,
      <<8288, 8292>>, <<8294, 8303>>, <<8305, 8305>>, <<8319, 8319>>, <<8336, 8348>>,
      <<8400, 8432>>, <<11388, 11389>>, <<11503, 11505>>, <<11631, 11631>>, <<11647, 11647>>,
      <<11744, 11775>>, <<11823, 11823>>, <<12293, 12293>>, <<12330, 12333>>, <<12337, 12341>>,
      <<12347, 12347>>, <<12441, 12446>>, <<12540, 12542>>, <<40981, 40981>>, <<42232, 42237>>,
      <<42508, 42508>>, <<42607, 42610>>, <<42612, 42621>>, <<42623, 42623>>, <<42652, 42655>>,
      <<42736, 42737>>, <<42752, 42785>>, <<42864, 42864>>, <<42888, 42890>>, <<42994, 42996>>,
      <<43000, 43001>>, <<43010, 43010>>, <<43014, 43014>>, <<43019, 43019>>, <<43045, 43046>>,
      <<43052, 43052>>, <<43204, 43205>>, <<43232, 43249>>, <<43263, 43263>>, <<43302, 43309>>,
      <<43335, 43345>>, <<43392, 43394>>, <<43443, 43443>>, <<43446, 43449>>, <<43452, 43453>>,
      <<43471, 43471>>, <<43493, 43494>>, <<43561, 43566>>, <<43569, 43570>>, <<43573, 43574>>,
      <<43587, 43587>>, <<43596, 43596>>, <<43632, 43632>>, <<43644, 43644>>, <<43696, 43696>>,
      <<43698, 43700>>, <<43703, 43704>>, <<43710, 43711>>, <<43713, 43713>>, <<43741, 43741>>,
      <<43756, 43757>>, <<43763, 43764>>, <<43766, 43766>>, <<43867, 43871>>, <<43881, 43883>>,
      <<44005, 44005>>, <<44008, 44008>>, <<44013, 44013>>, <<64286, 64286>>, <<64434, 64450>>,
      <<65024, 65039>>, <<65043, 65043>>, <<65056, 65071>>, <<65106, 65106>>, <<65109, 65109>>,
      <<65279, 65279>>, <<65287, 65287>>, <<65294, 65294>>, <<65306, 65306>>, <<65342, 65342>>,
      <<65344, 65344>>, <<65392, 65392>>, <<65438, 65439>>, <<65507, 65507>>, <<65529, 65531>>,
      <<66045, 66045>>, <<66272, 66272>>, <<66422, 66426>>, <<67456, 67461>>, <<67463, 67504>>,
      <<67506, 67514>>, <<68097, 68099>>, <<68101, 68102>>, <<68108, 68111>>, <<68152, 68154>>,
      <<68159, 68159>>, <<68325, 68326>>, <<68900, 68903>>, <<69291, 69292>>, <<69446, 69456>>,
      <<69506, 69509>>, <<69633, 69633>>, <<69688, 69702>>, <<69744, 69744>>, <<69747, 69748>>,
      <<69759, 69761>>, <<69811, 69814>>, <<69817, 69818>>, <<69821, 69821>>, <<69826, 69826>>,
      <<69837, 69837>>, <<69888, 69890>>, <<69927, 69931>>, <<69933, 69940>>, <<70003, 70003>>,
      <<70016, 70017>>, <<70070, 70078>>, <<70089, 70092>>, <<70095, 70095>>, <<70191, 70193>>,
      <<70196, 70196>>, <<70198, 70199>>, <<70206, 70206>>, <<70367, 70367>>, <<70371, 70378>>,
      <<70400, 70401>>, <<70459, 70460>>, <<70464, 70464>>, <<70502, 70508>>, <<70512, 70516>>,
      <<70712, 70719>>, <<70722, 70724>>, <<70726, 70726>>, <<70750, 70750>>, <<70835, 70840>>,
      <<70842, 70842>>, <<70847, 70848>>, <<70850, 70851>>, <<71090, 71093>>, <<71100, 71101>>,
      <<71103, 71104>>, <<71132, 71133>>, <<71219, 71226>>, <<71229, 71229>>, <<71231, 71232>>,
      <<71339, 71339>>, <<71341, 71341>>, <<71344, 71349>>, <<71351, 71351>>, <<71453, 71455>>,
      <<71458, 71461>>, <<71463, 71467>>, <<71727, 71735>>, <<71737, 71738>>, <<71995, 71996>>,
      <<71998, 71998>>, <<72003, 72003>>, <<72148, 72151>>, <<72154, 72155>>, <<72160, 72160>>,
      <<72193, 72202>>, <<72243, 72248>>, <<72251, 72254>>, <<72263, 72263>>, <<72273, 72278>>,
      <<72281, 72283>>, <<72330, 72342>>, <<72344, 72345>>, <<72752, 72758>>, <<72760, 72765>>,
      <<72767, 72767>>, <<72850, 72871>>, <<72874, 72880>>, <<72882, 72883>>, <<72885, 72886>>,
      <<73009, 73014>>, <<73018, 73018>>, <<73020, 73021>>, <<73023, 73029>>, <<73031, 73031>>,
      <<73104, 73105>>, <<73109, 73109>>, <<73111, 73111>>, <<73459, 73460>>, <<78896, 78904>>,
      <<92912, 92916>>, <<92976, 92982>>, <<92992, 92995>>, <<94031, 94031>>, <<94095, 94111>>,
      <<94176, 94177>>, <<94179, 94180>>, <<110576, 110579>>, <<110581, 110587>>,
      <<110589, 110590>>, <<113821, 113822>>, <<113824, 113827>>, <<118528, 118573>>,
      <<118576, 118598>>, <<119143, 119145>>, <<119155, 119170>>, <<119173, 119179>>,
      <<119210, 119213>>, <<119362, 119364>>, <<121344, 121398>>, <<121403, 121452>>,
      <<121461, 121461>>, <<121476, 121476>>, <<121499, 121503>>, <<121505, 121519>>,
      <<122880, 122886>>, <<122888, 122904>>, <<122907, 122913>>, <<122915, 122916>>,
      <<122918, 122922>>, <<123184, 123197>>, <<123566, 123566>>, <<123628, 123631>>,
      <<125136, 125142>>, <<125252, 125259>>, <<127995, 127999>>, <<917505, 917505>>,
      <<917536, 917631>>, <<917760, 917999>> }

InRanges(c, ranges) == \E r \in ranges : r[1] <= c /\ c <= r[2]

IsCased(c) == InRanges(c, CasedRanges)
IsCaseIgnorable(c) == InRanges(c, CaseIgnorableRanges)

\* whether a rule of LowerRules maps the code point
RuleApplies(rule, c) ==
    rule[1] <= c /\ c <= rule[2] /\ (c - rule[1]) % rule[3] = 0

\* the code point a code point lowers to by the simple mappings
LowerChar(c) ==
    IF \E rule \in LowerRules : RuleApplies(rule, c)
    THEN c + (CHOOSE rule \in LowerRules : RuleApplies(rule, c))[4]
    ELSE c

\* Greek capital sigma, small final sigma and small sigma
CapitalSigma == 931
FinalSigma   == 962
SmallSigma   == 963

\* Latin capital I with dot above, and what it lowers to: i and the
\* combining dot above
CapitalIDot == 304
LowerIDot   == <<105, 775>>

\* Whether the capital sigma at position i ends a word: the nearest
\* character before it that is not case-ignorable is cased, and the nearest
\* such character after it, if there is one, is not.
IsFinalSigma(text, i) ==
    LET before == {j \in 1..(i - 1) : ~IsCaseIgnorable(text[j])}
        after  == {j \in (i + 1)..Len(text) : ~IsCaseIgnorable(text[j])}
    IN /\ before /= {}
       /\ IsCased(text[CHOOSE j \in before : \A h \in before : h <= j])
       /\ \/ after = {}
          \/ ~IsCased(text[CHOOSE j \in after : \A h \in after : j <= h])

\* what the character at position i of a text lowers to
LowerAt(text, i) ==
    IF text[i] = CapitalSigma
    THEN <<IF IsFinalSigma(text, i) THEN FinalSigma ELSE SmallSigma>>
    ELSE IF text[i] = CapitalIDot THEN LowerIDot
    ELSE <<LowerChar(text[i])>>

\* the concatenation of a sequence of sequences
RECURSIVE Flatten(_)
Flatten(seqs) ==
    IF seqs = <<>> THEN <<>> ELSE Head(seqs) \o Flatten(Tail(seqs))

\* str.lower()
Lower(text) == Flatten([i \in 1..Len(text) |-> LowerAt(text, i)])

\* text.endswith(suffix)
EndsWith(text, suffix) ==
    /\ Len(suffix) <= Len(text)
    /\ SubSeq(text, Len(text) - Len(suffix) + 1, Len(text)) = suffix

PngExt == Codes(<<".", "p", "n", "g">>)
ImageExtensions ==
    {PngExt, Codes(<<".", "j", "p", "g">>), Codes(<<".", "j", "p", "e", "g">>)}

\* any(file_path.lower().endswith(ext) for ext in ['.png', '.jpg', '.jpeg'])
HasImageExtension(file_path) ==
    \E ext \in ImageExtensions : EndsWith(Lower(file_path), ext)

\* "Ensure proper file extension"
WithExtension(file_path) ==
    IF HasImageExtension(file_path) THEN file_path ELSE file_path \o PngExt

\* WithExtension of every path of SavePaths, worked out once
Extended == [file_path \in SavePaths |-> WithExtension(file_path)]

\* os.sep and os.extsep
Sep    == Ord("/")
ExtSep == Ord(".")

\* os.path.splitext(file_path)[0]: the path up to the last dot of its last
\* component, unless only dots stand before that dot in the component
SplitextBase(file_path) ==
    LET seps   == {i \in 1..Len(file_path) : file_path[i] = Sep}
        first  == IF seps = {} THEN 1
                  ELSE 1 + CHOOSE i \in seps : \A j \in seps : j <= i
        dots   == {i \in first..Len(file_path) :
                     /\ file_path[i] = ExtSep
                     /\ \E j \in first..(i - 1) : file_path[j] /= ExtSep}
    IN IF dots = {} THEN file_path
       ELSE SubSeq(file_path, 1, (CHOOSE i \in dots : \A j \in dots : j <= i) - 1)

MasksSuffix == Codes(<<"_", "m", "a", "s", "k", "s">>)

\* f"{base_path}_masks"
MasksDir(file_path) == SplitextBase(file_path) \o MasksSuffix

ClusterPrefix == Codes(<<"c", "l", "u", "s", "t", "e", "r", "_">>)

\* MaskPath with the 0-based index in the name
MaskPath_ZeroBased(masks_dir, idx) ==
    [dir |-> masks_dir, name |-> ClusterPrefix \o Codes(Str(idx)) \o PngExt]

\* os.path.join(masks_dir, f"cluster_{idx + 1}.png"), idx counted from 0
MaskPath(masks_dir, idx) ==
    [dir |-> masks_dir, name |-> ClusterPrefix \o Codes(Str(idx + 1)) \o PngExt]

\* "for idx, (mask, color, is_visible) in enumerate(zip(masks, dominant_colors,
\* cluster_visibility))" from position idx (0-based) on: the files written,
\* up to the end of the lists or to the first statement that raises
RECURSIVE SaveMasksFrom(_, _, _)
SaveMasksFrom(files, idx, masks_dir) ==
    IF idx >= Min(Len(masks), Min(Len(dominant_colors), Len(cluster_visibility)))
    THEN files
    ELSE IF ~cluster_visibility[idx + 1]
    THEN SaveMasksFrom(files, idx + 1, masks_dir)
    ELSE IF ~CanIndex(original_image, masks[idx + 1])
    THEN files
    ELSE SaveMasksFrom(
           Append(files,
                  [path  |-> MaskPath(masks_dir, idx),
                   image |-> MaskColorImage(original_image, masks[idx + 1],
                                            dominant_colors[idx + 1])]),
           idx + 1, masks_dir)

\* the try block of save_segments for a path of SavePaths: the files it
\* writes.  On a location that cannot be written cv2.imwrite returns False,
\* which the code does not look at, and os.makedirs raises.
SavedFiles(file_path, save_masks, writable) ==
    LET segmented_file ==
            [path  |-> [dir |-> <<>>, name |-> Extended[file_path]],
             image |-> segmented_image]
    IN IF ~writable THEN <<>>
       ELSE IF ~save_masks THEN <<segmented_file>>
       ELSE SaveMasksFrom(<<segmented_file>>, 0, MasksDir(Extended[file_path]))

\* save_segments writing the composite of the visible clusters back to
\* segmented_image
save_to_ChangesSegmented(file_path, save_masks, writable) ==
    /\ written' = SavedFiles(file_path, save_masks, writable)
    /\ segmented_image' = Composite(original_image, masks, cluster_visibility)
    /\ pc' = "saved"
    /\ UNCHANGED <<original_image, dominant_colors, masks, cluster_visibility,
                   inputs, buttons, window_enabled, k, dialog, filter_dialog>>

\* the body of "if file_path:", up to the message box that ends it
save_to(file_path, save_masks, writable) ==
    /\ written' = SavedFiles(file_path, save_masks, writable)
    /\ pc' = "saved"
    /\ UNCHANGED <<original_image, results, inputs, buttons, window_enabled, k,
                   dialog, filter_dialog>>

save_segments ==
    /\ Dispatched
    /\ save_button
    /\ IF segmented_image = None THEN UNCHANGED vars
       ELSE \E file_path \in SavePaths, save_masks \in BOOLEAN, writable \in BOOLEAN :
              IF file_path = <<>> THEN UNCHANGED vars
              ELSE save_to(file_path, save_masks, writable)

\* the user closes the "Save Complete" / "Save Error" box and save_segments
\* returns
save_segments_return ==
    /\ pc = "saved"
    /\ written' = <<>>
    /\ pc' = "idle"
    /\ UNCHANGED <<original_image, results, inputs, buttons, window_enabled, k,
                   dialog, filter_dialog>>

----------------------------------------------------------------------------
\* Sessions of the main window and the mask dialog, with the cluster count
\* typed or set by the slider; the filter dialog is not opened
Next ==
    \/ type_cluster_input
    \/ focus_out_cluster_input
    \/ update_cluster_input
    \/ load_image
    \/ segment_image_begin
    \/ segment_image_cluster
    \/ show_masks
    \/ update_cluster_visibility
    \/ reset_visibility
    \/ apply_visibility
    \/ close_dialog

Spec == Init /\ [][Next]_vars

\* Sessions that load images, segment them with the cluster count of the
\* field's initial text and run the filter dialog
NextFilter ==
    \/ load_image
    \/ segment_image_begin
    \/ segment_image_cluster
    \/ open_filters
    \/ update_filter_controls
    \/ update_parameter
    \/ reset_filters
    \/ accept_filters
    \/ reject_filters

FilterSpec == Init /\ [][NextFilter]_vars

\* Sessions that only load images, of many sizes
NextResize == load_sized_image

ResizeSpec == Init /\ [][NextResize]_vars

\* Sessions that keep the cluster count of the field's initial text and run
\* no filter: loading, segmenting, the mask dialog and saving
NextSave ==
    \/ load_image
    \/ segment_image_begin
    \/ segment_image_cluster
    \/ show_masks
    \/ update_cluster_visibility
    \/ reset_visibility
    \/ apply_visibility
    \/ close_dialog
    \/ save_segments
    \/ save_segments_return

SaveSpec == Init /\ [][NextSave]_vars

\* The sessions of Next with save_segments added
NextAll ==
    \/ Next
    \/ save_segments
    \/ save_segments_return

FullSpec == Init /\ [][NextAll]_vars

----------------------------------------------------------------------------
(* Steps named by the properties below *)

\* images the loads of Files that raise nothing can leave in original_image
LoadableImages ==
    UNION {LoadedImages(file_path) :
             file_path \in {f \in Files : ~LoadRaises(f)}}

\* what the loads of Files that raise after cv2.imread has returned leave
\* in original_image
UnloadableImages ==
    {imread(file_path) :
       file_path \in {f \in Files : LoadRaises(f) /\ ~ImreadRaises(f)}}

\* a load_image call that reaches the end of its try block
LoadSucceeded ==
    /\ pc = "idle"
    /\ LoadSucceeds
    /\ original_image' \in LoadableImages

\* a load_image call that ends in its except clause
LoadFailed ==
    /\ pc = "idle"
    /\ LoadFails
    /\ original_image' \in UnloadableImages

\* a show_filters call whose dialog was accepted: the step from accept() to
\* the end of show_filters
FiltersAccepted == pc = "filter_dialog" /\ accept_filters

\* a segment_image call that reaches the end of its try block: the step that
\* leaves "segmenting" (segment_image_cluster is the only action enabled
\* there) when neither cv2.kmeans nor the reshape of the labels raises
SegmentSucceeded ==
    /\ pc = "segmenting" /\ pc' = "idle"
    /\ ~KMeansFails(original_image, k)
    /\ ~ReshapeRaises(original_image)

\* a segment_image call that fails: int() raises, or cv2.kmeans or the
\* reshape of the labels raises
SegmentFailed ==
    \/ /\ pc = "idle" /\ segment_button /\ original_image /= None
       /\ IntRaises(cluster_input)
       /\ UnhandledException
    \/ /\ pc = "segmenting" /\ pc' = "idle"
       /\ KMeansFails(original_image, k) \/ ReshapeRaises(original_image)

\* pixel positions covered by the masks
MaskPixels == IF masks = <<>> THEN {} ELSE 1..Len(masks[1].px)

\* clusters whose mask is set at pixel p
OwnersOf(p) == {i \in 1..Len(masks) : masks[i].px[p] = 255}

NoResults ==
    /\ segmented_image = None
    /\ dominant_colors = <<>>
    /\ masks = <<>>
    /\ cluster_visibility = <<>>

----------------------------------------------------------------------------
(* C1 *)

\* C1: in every state the masks partition the pixel positions they cover: at
\* every position exactly one mask holds 255 (none uncovered, none in two
\* masks); and a successful segment_image with cluster count k leaves k
\* masks, each of the image's dimensions and covering each of its pixels.
C1_MasksPartition ==
    /\ [](/\ \A i \in 1..Len(masks) : Len(masks[i].px) = Len(masks[1].px)
          /\ \A p \in MaskPixels : Cardinality(OwnersOf(p)) = 1)
    /\ [][SegmentSucceeded =>
            /\ Len(masks') = k
            /\ \A i \in 1..k : /\ masks'[i].shape = original_image'.shape
                               /\ Len(masks'[i].px) = Len(original_image'.px)]_vars

\* three masks, two pixels owned by different clusters, the middle mask empty
C1_Witness ==
    /\ pc = "idle"
    /\ Len(masks) = 3
    /\ masks[1].px[1] = 255 /\ masks[3].px[2] = 255
    /\ \A p \in MaskPixels : masks[2].px[p] = 0

(* C2 *)

\* C2: a load_image or segment_image call that fails leaves original_image,
\* segmented_image, dominant_colors, masks and cluster_visibility as they were.
C2_FailureLeavesSession ==
    [][(LoadFailed \/ SegmentFailed)
         => UNCHANGED <<original_image, segmented_image, dominant_colors,
                        masks, cluster_visibility>>]_vars

(* C3 *)

\* C3: the cluster count of a segment_image call that has reached the
\* clustering call lies in [2, 10].
C3_ClusterCountInRange ==
    pc = "segmenting" => (k >= MinClusters /\ k <= MaxClusters)

(* C4 *)

\* C4: every successful load_image and every accepted filter dialog leaves
\* segmented_image None and dominant_colors, masks and cluster_visibility
\* empty, whatever they held before.
C4_Invalidation ==
    [][(LoadSucceeded \/ FiltersAccepted) => NoResults']_vars

\* the filter dialog, opened on an image with three clusters segmented,
\* holds a filtered image that differs from it: Apply has results to
\* invalidate
C4_Witness ==
    /\ pc = "filter_dialog"
    /\ filter_combo /= "No Filter"
    /\ filtered_image /= original_image
    /\ segmented_image /= None
    /\ Len(masks) = 3 /\ Len(dominant_colors) = 3
    /\ cluster_visibility = <<TRUE, TRUE, TRUE>>
    /\ save_button /\ show_masks_button

----------------------------------------------------------------------------
\* the cluster owning pixel p
OwnerOf(p) == CHOOSE i \in 1..Len(masks) : masks[i].px[p] = 255

AllTrue(visibility) == \A i \in 1..Len(visibility) : visibility[i]
AllFalse(visibility) == \A i \in 1..Len(visibility) : ~visibility[i]

\* the image the compositor is specified to give: the original's pixel where
\* the owning cluster is visible, zero in all channels where it is hidden
ExpectedComposite(visibility) ==
    [shape |-> original_image.shape,
     px    |-> [p \in 1..Len(original_image.px) |->
                  IF visibility[OwnerOf(p)] THEN original_image.px[p] ELSE Black]]

(* C5 *)

\* C5: whenever the mask dialog shows a preview, and whenever Apply Changes
\* stores the composite, the image has the original's dimensions and each
\* pixel is the original's where its cluster is visible and zero where it is
\* hidden; with every cluster hidden the image is zero everywhere.
C5_Compositor ==
    /\ [](pc = "mask_dialog" =>
            /\ dlg_preview = ExpectedComposite(dlg_visibility)
            /\ dlg_preview.shape = original_image.shape
            /\ AllFalse(dlg_visibility) =>
                 \A p \in 1..Len(dlg_preview.px) : dlg_preview.px[p] = Black)
    /\ [][apply_visibility =>
            segmented_image' = ExpectedComposite(dlg_visibility)]_vars

\* the preview shows a coloured pixel blacked out (its cluster hidden) next
\* to a pixel of a visible cluster
C5_Witness ==
    /\ pc = "mask_dialog"
    /\ Len(masks) = 3
    /\ original_image.px[1] = Rust
    /\ OwnerOf(1) /= OwnerOf(2)
    /\ ~dlg_visibility[OwnerOf(1)] /\ dlg_visibility[OwnerOf(2)]
    /\ dlg_preview.px[1] = Black /\ dlg_preview.px[2] = original_image.px[2]

(* C6 *)

\* C6: with every cluster visible the composite, previewed or applied, is
\* the original image pixel for pixel.
C6_AllVisibleIsOriginal ==
    /\ [](pc = "mask_dialog" /\ AllTrue(dlg_visibility) => dlg_preview = original_image)
    /\ [][apply_visibility /\ AllTrue(dlg_visibility) =>
            segmented_image' = original_image]_vars

\* all clusters visible, the last cluster owning a coloured pixel, and the
\* preview equal to the original while the segmented image differs from it
C6_Witness ==
    /\ pc = "mask_dialog"
    /\ Len(masks) = 3 /\ AllTrue(dlg_visibility)
    /\ masks[3].px[1] = 255 /\ original_image.px[1] = Rust
    /\ dlg_preview = original_image
    /\ segmented_image /= original_image

(* C7 *)

\* C7: whenever a segmented image is held, each of its pixels is the palette
\* colour of the cluster owning the pixel: segmented_image[p] =
\* Palette[LabelMap[p]].
C7_SegmentedIsPaletteOfLabels ==
    segmented_image /= None =>
        \A p \in MaskPixels : segmented_image.px[p] = dominant_colors[OwnerOf(p)]

(* C8 *)

\* C8: a checkbox change, Reset All and Apply Changes leave original_image,
\* dominant_colors and masks as they were.
C8_ToggleFrame ==
    [][(update_cluster_visibility \/ reset_visibility \/ apply_visibility)
         => UNCHANGED <<original_image, dominant_colors, masks>>]_vars

\* Reset All followed by a checkbox change: the dialog's flags differ from
\* the window's, which Reset All made all-true through the shared list
C8_Witness ==
    /\ pc = "mask_dialog"
    /\ ~dlg_aliased
    /\ Len(masks) = 3
    /\ dlg_visibility = <<FALSE, TRUE, TRUE>>
    /\ cluster_visibility = <<TRUE, TRUE, TRUE>>

(* C9 *)

\* C9: in every state dominant_colors, masks and cluster_visibility have the
\* same length; a successful segment_image with cluster count k leaves each
\* with exactly k entries, and every pixel of the segmented image carries the
\* palette entry of an index in 1..k (0..k-1 in the code), its cluster's.
C9_ResultSizes ==
    /\ [](/\ Len(dominant_colors) = Len(masks)
          /\ Len(masks) = Len(cluster_visibility))
    /\ [][SegmentSucceeded =>
            /\ Len(dominant_colors') = k
            /\ Len(masks') = k
            /\ Len(cluster_visibility') = k
            /\ \A p \in 1..Len(segmented_image'.px) :
                 \E i \in 1..k : /\ masks'[i].px[p] = 255
                                 /\ segmented_image'.px[p] = dominant_colors'[i]]_vars

(* C10 *)

\* C10: a successful segment_image leaves every one of its k clusters
\* visible, whatever flags were hidden before, and a successful load_image
\* leaves cluster_visibility empty.
C10_VisibilityReset ==
    [][/\ SegmentSucceeded => cluster_visibility' = [i \in 1..k |-> TRUE]
       /\ LoadSucceeded => cluster_visibility' = <<>>]_vars

\* a re-segmentation about to succeed while the window holds hidden flags
\* from the previous run
C10_Witness ==
    /\ pc = "segmenting"
    /\ ~KMeansFails(original_image, k)
    /\ Len(cluster_visibility) = 3
    /\ ~cluster_visibility[1] /\ ~cluster_visibility[3]

----------------------------------------------------------------------------
(* Steps and values named by the properties of save_segments *)

\* clusters (1-based) whose visibility flag is true
VisibleClusters == {i \in 1..Len(cluster_visibility) : cluster_visibility[i]}

\* the name the export is specified to give the file of cluster i (1-based,
\* i.e. index i - 1 of the code)
ClusterFileName(i) == ClusterPrefix \o Codes(Str(i)) \o PngExt

\* the mask files among a sequence of written files
MaskFilesOf(files) ==
    {files[n] : n \in {m \in 1..Len(files) : files[m].path.dir /= <<>>}}

\* the per-cluster mask image as specified
ExpectedMaskImage(i) ==
    [shape |-> original_image.shape,
     px    |-> [p \in 1..Len(original_image.px) |->
                  IF masks[i].px[p] = 255 THEN dominant_colors[i] ELSE Black]]

(* C11 *)

\* C11: a save_segments call that exports masks to a writable location
\* writes exactly one mask file per cluster whose flag is true, named
\* cluster_(i+1).png for 0-based cluster index i, and none for a hidden
\* cluster.
C11_MaskExport ==
    [][\A file_path \in SavePaths \ {<<>>} :
          (pc = "idle" /\ save_button /\ segmented_image /= None
             /\ save_to(file_path, TRUE, TRUE))
          => /\ {f.path.name : f \in MaskFilesOf(written')}
                  = {ClusterFileName(i) : i \in VisibleClusters}
             /\ Cardinality(MaskFilesOf(written')) = Cardinality(VisibleClusters)
             /\ Len(written') = 1 + Cardinality(VisibleClusters)]_vars

(* C12 *)

\* C12: every per-cluster mask image, shown by the mask dialog or written by
\* save_segments, has the original image's dimensions, and each of its
\* pixels is the cluster's palette colour inside the cluster's mask and
\* zero outside.
C12_MaskImages ==
    /\ pc = "mask_dialog" =>
          /\ Len(dlg_mask_images) = Len(masks)
          /\ \A i \in 1..Len(masks) :
                /\ dlg_mask_images[i] = ExpectedMaskImage(i)
                /\ dlg_mask_images[i].shape = original_image.shape
    /\ pc = "saved" =>
          \A f \in MaskFilesOf(written) : \A i \in 1..Len(masks) :
             f.path.name = ClusterFileName(i) =>
                /\ f.image = ExpectedMaskImage(i)
                /\ f.image.shape = original_image.shape

\* an export of the first and third of three clusters, the first tracked
\* pixel in cluster 1 and the second in cluster 3
C12_Witness ==
    /\ pc = "saved"
    /\ Len(written) = 3
    /\ cluster_visibility = <<TRUE, FALSE, TRUE>>
    /\ written[2].path.name = ClusterFileName(1)
    /\ written[3].path.name = ClusterFileName(3)
    /\ written[2].image.px[1] = dominant_colors[1]
    /\ written[2].image.px[2] = Black
    /\ written[3].image.px[2] = dominant_colors[3]

(* C19 *)

\* C19: a save_segments call, from its start to its return, leaves
\* original_image, segmented_image, dominant_colors, masks and
\* cluster_visibility as they were, whether it wrote its files or not.
C19_SaveFrame ==
    [][(save_segments \/ save_segments_return)
         => UNCHANGED <<original_image, segmented_image, dominant_colors,
                        masks, cluster_visibility>>]_vars

\* a save with masks requested that ended in its except clause after writing
\* the segmented image only, the session still holding its three clusters
C19_Witness ==
    /\ pc = "saved"
    /\ Len(written) = 1
    /\ original_image = None
    /\ Len(masks) = 3 /\ \E i \in 1..3 : cluster_visibility[i]
    /\ segmented_image /= None

(* C13 *)

\* C13: while a segmentation is in progress the main window is disabled and
\* the only step taken is the segmentation's own, which ends with the window
\* enabled again whether the clustering succeeded or raised; whenever no
\* call is in progress the window is enabled.
C13_OneInFlight ==
    /\ [](pc = "segmenting" => ~window_enabled)
    /\ [](pc = "idle" => window_enabled)
    /\ [][pc = "segmenting" =>
            /\ pc' = "idle" /\ window_enabled'
            /\ UNCHANGED <<original_image, inputs, dialog, elsewhere>>
            /\ KMeansFails(original_image, k) => UNCHANGED <<results, buttons>>]_vars

\* a segmentation about to fail while results of an earlier one are held
\* and every button is enabled
C13_Witness ==
    /\ pc = "segmenting"
    /\ KMeansFails(original_image, k)
    /\ ~window_enabled
    /\ filter_button /\ segment_button /\ save_button /\ show_masks_button
    /\ segmented_image /= None

(* C14 *)

\* a load_image call on file_path that reaches the end of its try block
SizedLoadSucceeded(file_path) ==
    /\ pc = "idle"
    /\ LoadSucceeds
    /\ original_image' \in Loads[file_path].images

\* C14: after every successful load_image the image has at least one row
\* and one column and at most 12,000,000 pixels; a decoded image within
\* that bound keeps its dimensions, and a larger one is scaled down, no axis
\* growing, by one factor for both axes (up to the truncation of each
\* dimension to an integer).
C14_ResizeBound ==
    [][\A file_path \in SizedFiles :
          SizedLoadSucceeded(file_path) =>
            LET height     == FileShape(file_path)[1]
                width      == FileShape(file_path)[2]
                new_height == original_image'.shape[1]
                new_width  == original_image'.shape[2]
            IN /\ new_height >= 1 /\ new_width >= 1
               /\ new_height * new_width <= LimitWidth * LimitHeight
               /\ height * width <= LimitWidth * LimitHeight
                    => new_height = height /\ new_width = width
               /\ height * width > LimitWidth * LimitHeight
                    => /\ new_height <= height /\ new_width <= width
                       /\ new_height * width - new_width * height < height
                       /\ new_width * height - new_height * width < width]_vars

\* a 3000 x 4001 image, one column over the bound, loaded as 2999 x 4000
C14_Witness ==
    /\ pc = "idle"
    /\ filter_button /\ segment_button
    /\ original_image.shape = <<2999, 4000>>

(* C16 *)

\* a centre channel, given in tenths, rounded to the nearest integer
RoundNearest(tenths) == (tenths + 5) \div 10

\* C16: after a successful segment_image each palette entry is, channel by
\* channel, the corresponding centre returned by cv2.kmeans rounded to the
\* nearest integer (127.6 gives 128).
C16_PaletteRounded ==
    [][SegmentSucceeded =>
         \E outcome \in KMeansOutcomes(original_image, k) :
            /\ masks' = MasksFrom(original_image, outcome.labels, k)
            /\ dominant_colors' =
                  [i \in 1..k |->
                     [c \in 1..3 |-> RoundNearest(outcome.centers[i][c])]]]_vars

(* C18 *)

\* C18: the preview of the mask dialog is determined by the current
\* visibility flags alone, however they were reached: it is always the
\* compositor's image for the flags now set, and a step of the dialog that
\* leaves the flags as they were leaves the preview as it was.
C18_HistoryIndependent ==
    /\ [](pc = "mask_dialog" =>
            dlg_preview = Composite(original_image, masks, dlg_visibility))
    /\ [][(pc = "mask_dialog" /\ pc' = "mask_dialog"
            /\ dlg_visibility' = dlg_visibility) => dlg_preview' = dlg_preview]_vars

\* the middle cluster hidden after Reset All, its pixel blacked out: flags
\* reached by more than one sequence of clicks
C18_Witness ==
    /\ pc = "mask_dialog"
    /\ ~dlg_aliased
    /\ Len(masks) = 3
    /\ dlg_visibility = <<TRUE, FALSE, TRUE>>
    /\ masks[2].px[1] = 255 /\ original_image.px[1] = Rust
    /\ dlg_preview.px[1] = Black

----------------------------------------------------------------------------
(* Properties of ImageFilterDialog *)

(* C15 *)

\* C15: whenever Gaussian Blur or Median Blur is selected, the kernel size
\* passed to OpenCV is odd and at most 31: the entered Kernel Size, in
\* [1, 31], when that is odd, and the entered size plus one when it is even
\* (4 is passed as 5).
C15_OddKernel ==
    (pc = "filter_dialog" /\ filter_combo \in {"Gaussian Blur", "Median Blur"}) =>
        LET kernel_size == current_params["Kernel Size"]
        IN /\ kernel_size \in 1..31
           /\ cv_call.ksize % 2 = 1
           /\ cv_call.ksize <= 31
           /\ kernel_size % 2 = 1 => cv_call.ksize = kernel_size
           /\ kernel_size % 2 = 0 => cv_call.ksize = kernel_size + 1

\* Kernel Size 4 entered for the Gaussian blur and 5 passed to OpenCV
C15_Witness ==
    /\ pc = "filter_dialog"
    /\ filter_combo = "Gaussian Blur"
    /\ current_params["Kernel Size"] = 4
    /\ cv_call = [fn |-> "GaussianBlur", ksize |-> 5, sigma |-> 10]

(* C17 *)

\* C17: while the filter dialog is open its original_image stays the image
\* it was opened on, which the main window still holds, whatever filter
\* types and parameters are chosen; and whenever No Filter is selected
\* filtered_image equals that original.
C17_FilterSource ==
    /\ [](pc = "filter_dialog" =>
            /\ flt_original_image = original_image
            /\ filter_combo = "No Filter" => filtered_image = flt_original_image)
    /\ [][(pc = "filter_dialog" /\ pc' = "filter_dialog")
            => UNCHANGED <<flt_original_image, original_image>>]_vars

\* No Filter selected again after a blur with a changed kernel size had
\* produced a different image
C17_Witness ==
    /\ pc = "filter_dialog"
    /\ filter_combo = "No Filter"
    /\ "Kernel Size" \in DOMAIN current_params
    /\ current_params["Kernel Size"] = 30
    /\ flt_original_image.px[1] = Rust
    /\ filtered_image = flt_original_image

(* C20 *)

\* C20: Reset leaves No Filter selected, filtered_image equal to
\* original_image, and every parameter the dialog has stored at its default
\* value, so that the next filter selected starts from the defaults.
C20_ResetDefaults ==
    [][reset_filters =>
         /\ filter_combo' = "No Filter"
         /\ filtered_image' = flt_original_image'
         /\ \A param_name \in DOMAIN current_params' :
               current_params'[param_name] = DefaultValue(param_name)]_vars

----------------------------------------------------------------------------
(* Properties of the session as a whole *)

(* C21 *)

\* C21: while the mask dialog is open the main window's cluster_visibility
\* changes only by Apply Changes: a checkbox change, Reset All and closing
\* the dialog leave it as it was when the dialog was opened.
C21_OnlyApplyReaches ==
    [][(pc = "mask_dialog" /\ cluster_visibility' /= cluster_visibility)
         => apply_visibility]_vars

(* C22 *)

\* C22: whenever masks are held, original_image is an image, and it is the
\* one the masks were made from: each mask has its dimensions and covers
\* its pixels.
C22_NoStaleMasks ==
    masks /= <<>> =>
        /\ original_image /= None
        /\ \A i \in 1..Len(masks) :
              /\ masks[i].shape = original_image.shape
              /\ Len(masks[i].px) = Len(original_image.px)

(* C23 *)

\* segmentation results exist
ResultsExist == segmented_image /= None /\ masks /= <<>>

\* C23: in every state the Save Segments and Show Cluster Masks buttons are
\* enabled exactly when segmentation results exist, and the Apply Filters
\* and Segment Image buttons are enabled only when original_image is an
\* image.
C23_ButtonsTrackSession ==
    /\ save_button <=> ResultsExist
    /\ show_masks_button <=> ResultsExist
    /\ filter_button => original_image /= None
    /\ segment_button => original_image /= None

====
